---------------------------- MODULE Spec2Model ----------------------------
(***************************************************************************)
(* Product resolution and cart reconciliation of the AH bonus shopping     *)
(* agent: the Matcher (_find_product_in_all_sources), the add pass         *)
(* (CartAutomation.add_products) and the workflow driver (main).           *)
(*                                                                         *)
(* Titles are sequences of one-character strings, so that lower-casing,    *)
(* trimming, tokenising, substring tests and difflib's matching ratio are  *)
(* computed as the code computes them.  Scores are exact rationals         *)
(* [num, den]; the code uses binary floating point.                        *)
(***************************************************************************)
EXTENDS Integers, Sequences, FiniteSets, TLC

-----------------------------------------------------------------------------
(* Bounds of the model *)

\* longest available_products list drawn for a Matcher call
MaxAvail == 2
\* longest eerder-gekocht file content drawn for a Matcher call
MaxEerder == 1
\* longest list of products drawn for one add pass
MaxItems == 3
\* longest answer of the recommender in a run of main
MaxAnswer == 1
\* add passes made over one drawn list
MaxPasses == 2
\* what one unit of any product adds to the remote cart's total, in euros
UnitPrice == 10
\* titles in a cart handed to _is_product_in_cart
MaxCart == 2
\* entries in a catalog file, and in what a scrape gives
MaxFile == 2

-----------------------------------------------------------------------------
(* Strings *)

UpperChars == <<"A","B","C","D","E","F","G","H","I","J","K","L","M",
                "N","O","P","Q","R","S","T","U","V","W","X","Y","Z">>
LowerChars == <<"a","b","c","d","e","f","g","h","i","j","k","l","m",
                "n","o","p","q","r","s","t","u","v","w","x","y","z">>

LowerChar(c) ==
    IF \E i \in DOMAIN UpperChars : UpperChars[i] = c
    THEN LowerChars[CHOOSE i \in DOMAIN UpperChars : UpperChars[i] = c]
    ELSE c

\* str.lower()
Lower(s) == [i \in DOMAIN s |-> LowerChar(s[i])]

IsSpace(c) == c = " "

\* str.strip()
Strip(s) ==
    IF \A i \in DOMAIN s : IsSpace(s[i]) THEN << >>
    ELSE LET first == CHOOSE i \in DOMAIN s :
                          /\ ~IsSpace(s[i])
                          /\ \A j \in 1..(i-1) : IsSpace(s[j])
             last  == CHOOSE i \in DOMAIN s :
                          /\ ~IsSpace(s[i])
                          /\ \A j \in (i+1)..Len(s) : IsSpace(s[j])
         IN  SubSeq(s, first, last)

\* str.split(): the maximal runs of non-blank characters, in order
RECURSIVE SplitFrom(_, _)
SplitFrom(s, i) ==
    IF i > Len(s) THEN << >>
    ELSE IF IsSpace(s[i]) THEN SplitFrom(s, i + 1)
    ELSE LET stop == IF \E j \in i..Len(s) : IsSpace(s[j])
                     THEN (CHOOSE j \in i..Len(s) :
                               /\ IsSpace(s[j])
                               /\ \A k \in i..(j-1) : ~IsSpace(s[k])) - 1
                     ELSE Len(s)
         IN  <<SubSeq(s, i, stop)>> \o SplitFrom(s, stop + 1)

Split(s) == SplitFrom(s, 1)

\* a in b (Python substring test)
IsSubstring(a, b) ==
    \E i \in 0..(Len(b) - Len(a)) : SubSeq(b, i + 1, i + Len(a)) = a

Min2(x, y) == IF x <= y THEN x ELSE y

-----------------------------------------------------------------------------
(* difflib.SequenceMatcher(None, a, b).ratio() *)

\* length of the common run of a and b that starts at a[i], b[j]
RECURSIVE CommonRun(_, _, _, _, _, _)
CommonRun(a, b, i, j, ahi, bhi) ==
    IF i > ahi \/ j > bhi THEN 0
    ELSE IF a[i] # b[j] THEN 0
    ELSE 1 + CommonRun(a, b, i + 1, j + 1, ahi, bhi)

\* the largest member of a non-empty set of numbers, and the smallest
MaxOf(S) == CHOOSE m \in S : \A n \in S : n <= m
MinOf(S) == CHOOSE m \in S : \A n \in S : m <= n

\* the block of size k that starts at row i of the table run, earliest in b
BlockInRow(run, k, i, blo, bhi) ==
    [i |-> i, j |-> MinOf({j \in blo..bhi : run[<<i, j>>] = k}), size |-> k]

\* the block of size k of the table run: the one earliest in a, and of those
\* the one earliest in b
BlockOfSize(run, k, alo, blo, bhi) ==
    IF k = 0 THEN [i |-> alo, j |-> blo, size |-> 0]
    ELSE BlockInRow(run, k, MinOf({p[1] : p \in {q \in DOMAIN run : run[q] = k}}),
                    blo, bhi)

\* the longest block of the table run of common runs
LongestBlock(run, alo, blo, bhi) ==
    BlockOfSize(run, MaxOf({run[p] : p \in DOMAIN run}), alo, blo, bhi)

\* find_longest_match: the longest block common to a[alo..ahi] and b[blo..bhi],
\* the one earliest in a, and of those the one earliest in b
FindLongestMatch(a, b, alo, ahi, blo, bhi) ==
    LongestBlock([p \in (alo..ahi) \X (blo..bhi) |->
                      CommonRun(a, b, p[1], p[2], ahi, bhi)],
                 alo, blo, bhi)

\* get_matching_blocks: total size of the blocks found by recursing to the
\* left and to the right of the longest block m
RECURSIVE MatchingSize(_, _, _, _, _, _)
RECURSIVE MatchingAround(_, _, _, _, _, _, _)
MatchingAround(a, b, alo, ahi, blo, bhi, m) ==
    IF m.size = 0 THEN 0
    ELSE m.size
         + MatchingSize(a, b, alo, m.i - 1, blo, m.j - 1)
         + MatchingSize(a, b, m.i + m.size, ahi, m.j + m.size, bhi)

MatchingSize(a, b, alo, ahi, blo, bhi) ==
    IF alo > ahi \/ blo > bhi THEN 0
    ELSE MatchingAround(a, b, alo, ahi, blo, bhi,
                        FindLongestMatch(a, b, alo, ahi, blo, bhi))

\* 2.0 * matches / length, 1.0 when length is 0
RatioOf(matches, length) ==
    IF length = 0 THEN [num |-> 1, den |-> 1]
    ELSE [num |-> 2 * matches, den |-> length]

\* ratio() = 2.0 * matches / (len(a) + len(b)), 1.0 for two empty strings
Ratio(a, b) ==
    RatioOf(MatchingSize(a, b, 1, Len(a), 1, Len(b)), Len(a) + Len(b))

-----------------------------------------------------------------------------
(* Rational scores *)

RatGE(x, y) == x.num * y.den >= y.num * x.den
RatGT(x, y) == x.num * y.den >  y.num * x.den
RatEQ(x, y) == x.num * y.den =  y.num * x.den
RatZero == [num |-> 0, den |-> 1]

-----------------------------------------------------------------------------
(* Catalog entries and the Matcher: CartAutomation._find_product_in_all_sources *)

\* the dictionary of one catalog entry; product_url "" is "no identifier"
Entry(title, url, pq, source) ==
    [title |-> title, product_url |-> url, promotion_quantity |-> pq,
     source |-> source]

\* Python's None as a product
NoProduct == Entry(<< >>, "", 0, "none")

\* tokens never used as keywords (cart_automation.py:124)
StopList == { <<"a","h">>, <<"x","2">>, <<"x","1">>, <<"x","3">>, <<"x","4">>,
              <<"1","l">>, <<"2","l">>, <<"5","0","0","g">>,
              <<"3","0","0","g">> }

\* product_title.lower().strip()
NormalizeTitle(title) == Strip(Lower(title))

\* the keywords of a normalized search title
SearchKeywords(search_title) ==
    SelectSeq(Split(search_title), LAMBDA kw : kw \notin StopList /\ Len(kw) > 2)

\* sum(1 for kw in search_keywords if kw in product_name)
KeywordMatches(search_keywords, product_name) ==
    Cardinality({i \in DOMAIN search_keywords :
                     IsSubstring(search_keywords[i], product_name)})

ContainsMatch(search_title, product_name) ==
    IsSubstring(search_title, product_name) \/ IsSubstring(product_name, search_title)

\* lines 150-159: the score from the number n of keywords, the number k of
\* them found in the candidate, the contains test and the fuzzy score
CompositeScore(n, k, contains, fuzzy) ==
    IF n > 0 /\ k > 0
    THEN \* keyword_score * 0.6 + fuzzy_score * 0.4
         [num |-> 6 * k * fuzzy.den + 4 * fuzzy.num * n,
          den |-> 10 * n * fuzzy.den]
    ELSE IF contains
    THEN \* fuzzy_score * 1.2
         [num |-> 12 * fuzzy.num, den |-> 10 * fuzzy.den]
    ELSE fuzzy

\* the score of a candidate for the keywords of the search title
KeywordScore(search_keywords, search_title, product_name) ==
    CompositeScore(Len(search_keywords),
                   KeywordMatches(search_keywords, product_name),
                   ContainsMatch(search_title, product_name),
                   Ratio(search_title, product_name))

\* the composite score of one candidate (lines 143-159)
Score(search_title, product_name) ==
    KeywordScore(SearchKeywords(search_title), search_title, product_name)

HasUrl(product) == product.product_url # ""

\* threshold * 0.8
RelaxedThreshold(threshold) == [num |-> 8 * threshold.num, den |-> 10 * threshold.den]

\* best_match, best_score, best_has_url before the scan (lines 127-129)
InitialBest == [best_match |-> NoProduct, best_score |-> RatZero, best_has_url |-> FALSE]

\* UpdateBest comparing scores only, whatever the identifiers (lines 170-173
\* for every candidate)
UpdateBestScoreOnly(best, product, score, threshold) ==
    IF RatGT(score, best.best_score)
    THEN [best_match |-> product, best_score |-> score,
          best_has_url |-> HasUrl(product)]
    ELSE best

\* UpdateBest taking a later candidate of equal score (>= for > at line 170)
UpdateBestLaterOnTie(best, product, score, threshold) ==
    LET has_url == HasUrl(product)
    IN  IF has_url /\ ~best.best_has_url
        THEN IF RatGE(score, RelaxedThreshold(threshold))
             THEN [best_match |-> product, best_score |-> score, best_has_url |-> TRUE]
             ELSE best
        ELSE IF has_url = best.best_has_url
        THEN IF RatGE(score, best.best_score)
             THEN [best_match |-> product, best_score |-> score, best_has_url |-> has_url]
             ELSE best
        ELSE best

\* one candidate's effect on the running best (lines 161-176)
UpdateBest(best, product, score, threshold) ==
    LET has_url == HasUrl(product)
    IN  IF has_url /\ ~best.best_has_url
        THEN IF RatGE(score, RelaxedThreshold(threshold))
             THEN [best_match |-> product, best_score |-> score, best_has_url |-> TRUE]
             ELSE best
        ELSE IF has_url = best.best_has_url
        THEN IF RatGT(score, best.best_score)
             THEN [best_match |-> product, best_score |-> score, best_has_url |-> has_url]
             ELSE best
        ELSE best

\* ScanCandidate without the early return of lines 140-141: an exact match is
\* scored like any other candidate
RECURSIVE ScanCandidateNoExact(_, _, _, _, _, _)

\* the for loop over all_products (lines 131-176): either it returns an exact
\* match at once, or it ends with the running best
RECURSIVE ScanProducts(_, _, _, _, _)

\* one round of the loop, for the candidate at i with normalized title
\* product_name (lines 132-176)
RECURSIVE ScanCandidate(_, _, _, _, _, _)

ScanCandidateNoExact(all_products, search_title, threshold, i, best, product_name) ==
    IF product_name = << >>
    THEN ScanProducts(all_products, search_title, threshold, i + 1, best)
    ELSE ScanProducts(all_products, search_title, threshold, i + 1,
                      UpdateBest(best, all_products[i],
                                 Score(search_title, product_name), threshold))

ScanCandidate(all_products, search_title, threshold, i, best, product_name) ==
    IF product_name = << >>
    THEN ScanProducts(all_products, search_title, threshold, i + 1, best)
    ELSE IF product_name = search_title
    THEN [exact |-> TRUE,
          best |-> [best_match |-> all_products[i], best_score |-> best.best_score,
                    best_has_url |-> best.best_has_url]]
    ELSE ScanProducts(all_products, search_title, threshold, i + 1,
                      UpdateBest(best, all_products[i],
                                 Score(search_title, product_name), threshold))

ScanProducts(all_products, search_title, threshold, i, best) ==
    IF i > Len(all_products)
    THEN [exact |-> FALSE, best |-> best]
    ELSE ScanCandidate(all_products, search_title, threshold, i, best,
                       NormalizeTitle(all_products[i].title))

\* AcceptBest accepting only a score above the threshold (> for >= at line 179)
AcceptBestStrict(scan, threshold) ==
    IF scan.exact THEN scan.best.best_match
    ELSE IF RatGT(scan.best.best_score, threshold) /\ scan.best.best_match # NoProduct
    THEN scan.best.best_match
    ELSE NoProduct

\* lines 141 and 178-182: what is returned after the scan
AcceptBest(scan, threshold) ==
    IF scan.exact THEN scan.best.best_match
    ELSE IF RatGE(scan.best.best_score, threshold) /\ scan.best.best_match # NoProduct
    THEN scan.best.best_match
    ELSE NoProduct

\* the search over the merged list all_products (lines 117-182)
FindInMerged(all_products, product_title, threshold) ==
    IF all_products = << >> THEN NoProduct
    ELSE AcceptBest(ScanProducts(all_products, NormalizeTitle(product_title),
                                 threshold, 1, InitialBest),
                    threshold)

\* _find_product_in_all_sources(product_title, available_products, threshold),
\* eerder being what _load_eerder_gekocht returns
FindProductInAllSources(product_title, available_products, eerder, threshold) ==
    FindInMerged(available_products \o eerder, product_title, threshold)

\* default thresholds: 0.5 over all sources (line 93), 0.6 over eerder-gekocht only (line 184)
ThresholdAll == [num |-> 5, den |-> 10]
ThresholdEerder == [num |-> 6, den |-> 10]

\* _find_product_in_eerder_gekocht(product_title)
FindProductInEerderGekocht(product_title, eerder) ==
    FindProductInAllSources(product_title, << >>, eerder, ThresholdEerder)

-----------------------------------------------------------------------------
(* Titles and catalogs the model draws from *)

T_kaas      == <<"k","a","a","s">>
T_Kaas_sp   == <<"K","a","a","s"," ">>
T_sp_KAAS   == <<" ","K","A","A","S">>
T_kaas48    == <<"k","a","a","s"," ","4","8","+">>
T_kaas50    == <<"k","a","a","s"," ","5","0","+">>
T_kalf      == <<"k","a","l","f">>
T_kabel     == <<"k","a","b","e","l">>
T_kaasplank == <<"k","a","a","s","p","l","a","n","k">>
T_ah500g    == <<"a","h"," ","5","0","0","g">>
T_ah500gr   == <<"a","h"," ","5","0","0","g","r">>

\* entries of the bonus catalog (PRIMARY) and of the eerder-gekocht file (SECONDARY)
B_kaas48_url  == Entry(T_kaas48, "/p/1", 3, "bonus")
B_kaas48      == Entry(T_kaas48, "", 1, "bonus")
B_kabel_url   == Entry(T_kabel, "/p/2", 1, "bonus")
B_kalf        == Entry(T_kalf, "", 2, "bonus")
B_ah500gr     == Entry(T_ah500gr, "", 1, "bonus")
E_Kaas_url    == Entry(T_Kaas_sp, "/p/5", 1, "eerder-gekocht")
E_kaas48_url  == Entry(T_kaas48, "/p/6", 1, "eerder-gekocht")
E_kaas48      == Entry(T_kaas48, "", 1, "eerder-gekocht")
E_kaasplank   == Entry(T_kaasplank, "", 2, "eerder-gekocht")

BonusPool == {B_kaas48_url, B_kaas48, B_kabel_url, B_kalf, B_ah500gr}
EerderPool == {E_Kaas_url, E_kaas48_url, E_kaas48, E_kaasplank}

\* the titles asked of the Matcher
SearchTitles == {T_kaas, T_sp_KAAS, T_kaas48, T_ah500g}

\* all sequences over S of length at most n
SeqsUpTo(S, n) == UNION {[1..m -> S] : m \in 0..n}

-----------------------------------------------------------------------------
(* Desired items: BucketGenerator._find_product, generate_buckets,           *)
(* check_cart_with_llm                                                       *)

\* a product dictionary handed to add_products.  quantity 0 and
\* promotion_quantity 0 stand for an absent key; asked is the quantity the
\* recommender wrote for the item (0: none), kept for the properties only
Item(title, url, quantity, pq, source, asked) ==
    [title |-> title, product_url |-> url, quantity |-> quantity,
     promotion_quantity |-> pq, source |-> source, asked |-> asked]

\* one element of the recommender's JSON answer: a dictionary with a title, an
\* optional product_url and an optional quantity, or a bare string
LlmItem(kind, title, url, asked) ==
    [kind |-> kind, title |-> title, product_url |-> url, asked |-> asked]

\* BucketGenerator._find_product: the first product whose lower-cased title
\* contains the lower-cased title or is contained in it
FindProduct(all_products, title) ==
    LET hits == {i \in DOMAIN all_products :
                    \/ IsSubstring(Lower(title), Lower(all_products[i].title))
                    \/ IsSubstring(Lower(all_products[i].title), Lower(title))}
    IN  IF hits = {} THEN NoProduct
        ELSE all_products[CHOOSE i \in hits : \A j \in hits : i <= j]

\* the bucket entries generate_buckets makes of one answer item (lines 194-220):
\* none when _find_product finds nothing
BucketEntries(item, all_products) ==
    LET product == FindProduct(all_products, item.title)
    IN  IF product = NoProduct THEN << >>
        ELSE IF item.kind = "str"
        THEN <<Item(product.title, product.product_url,
                    IF product.promotion_quantity # 0 THEN product.promotion_quantity
                    ELSE 1,
                    product.promotion_quantity, product.source, item.asked)>>
        ELSE <<Item(product.title, product.product_url,
                    IF item.asked # 0 THEN item.asked
                    ELSE IF product.promotion_quantity > 1
                         THEN product.promotion_quantity
                         ELSE 0,
                    product.promotion_quantity, product.source, item.asked)>>

\* generate_buckets followed by add_from_buckets' merge of all buckets
RECURSIVE GenerateBuckets(_, _)
GenerateBuckets(items, all_products) ==
    IF items = << >> THEN << >>
    ELSE BucketEntries(Head(items), all_products)
             \o GenerateBuckets(Tail(items), all_products)

\* item.get('quantity', 1) of check_cart_with_llm
AskedOrOne(item) == IF item.asked # 0 THEN item.asked ELSE 1

\* one element of products_to_add as check_cart_with_llm completes it
\* (lines 497-545)
ProductToAdd(item, all_products) ==
    LET by_url   == {i \in DOMAIN all_products :
                        /\ all_products[i].product_url # ""
                        /\ all_products[i].product_url = item.product_url}
        by_title == FindProduct(all_products, item.title)
        matched_ == IF item.product_url # "" /\ by_url # {}
                    THEN all_products[CHOOSE i \in by_url : \A j \in by_url : i <= j]
                    ELSE by_title
    IN  IF matched_ # NoProduct
        THEN Item(matched_.title,
                  IF item.product_url # "" THEN item.product_url
                  ELSE matched_.product_url,
                  AskedOrOne(item), matched_.promotion_quantity, matched_.source,
                  item.asked)
        ELSE Item(item.title, item.product_url, AskedOrOne(item), 0, "", item.asked)

ProductsToAdd(items, all_products) ==
    [i \in DOMAIN items |-> ProductToAdd(items[i], all_products)]

-----------------------------------------------------------------------------
(* The add pass: CartAutomation._is_product_in_cart and add_products         *)

\* the one-element list add_products puts in place of unreadable titles
CartNotEmptyMark == <<"__cart_not_empty__">>

\* IsProductInCart taking a partial match whatever the lengths
IsProductInCartAnyLength(title, items) ==
    \E cart_item \in items :
        \/ Lower(title) = cart_item
        \/ IsSubstring(Lower(title), cart_item)
        \/ IsSubstring(cart_item, Lower(title))

\* lines 1769-1791 of _is_product_in_cart: the comparison of the lower-cased
\* title with each cart title
TitleInCart(title, items) ==
    LET title_lower == Lower(title)
        Partial(cart_item) ==
            /\ IsSubstring(title_lower, cart_item) \/ IsSubstring(cart_item, title_lower)
            /\ Min2(Len(title_lower), Len(cart_item)) >= 5
            /\ IF Len(title_lower) <= Len(cart_item)
               THEN Len(cart_item) > 0 /\ 10 * Len(title_lower) >= 6 * Len(cart_item)
               ELSE Len(title_lower) > 0 /\ 10 * Len(cart_item) >= 6 * Len(title_lower)
    IN  \E cart_item \in items : title_lower = cart_item \/ Partial(cart_item)

\* IsProductInCart taking every title to be in a cart whose titles are unknown
IsProductInCartMarkBlocks(title, items) ==
    IF CartNotEmptyMark \in items THEN TRUE ELSE TitleInCart(title, items)

\* _is_product_in_cart(product_title, cart_items), cart_items a set of
\* lower-cased titles or {CartNotEmptyMark} (lines 1763-1767)
IsProductInCart(title, items) ==
    IF CartNotEmptyMark \in items THEN FALSE ELSE TitleInCart(title, items)

\* promotion_quantity or quantity or 1 (line 1143)
Quantity(product) ==
    IF product.promotion_quantity # 0 THEN product.promotion_quantity
    ELSE IF product.quantity # 0 THEN product.quantity
    ELSE 1

\* product.update(matched_product) (line 1175)
UpdateProduct(product, matched_product) ==
    [product EXCEPT !.title = matched_product.title,
                    !.product_url = matched_product.product_url,
                    !.promotion_quantity = matched_product.promotion_quantity,
                    !.source = matched_product.source]

\* what the remote site answers to the steps of one item
SearchOutcomes == {"ok", "not_found", "fault"}
NavOutcomes == {"ok", "fault"}
AddOutcomes == {"ok", "not_found", "fault"}

\* what the for loop knows of one item before anything is done for it
ItemStart(product) ==
    [title |-> product.title, product |-> product,
     quantity |-> Quantity(product), ops |-> << >>,
     matcher |-> "not_called", matched |-> NoProduct, search |-> "none",
     fault |-> FALSE, units |-> 0, success_count |-> 0, reason |-> "",
     outcome |-> "none"]

\* lines 1232-1249: how an item is booked from success_count and quantity
OutcomeOf(success_count, quantity) ==
    IF success_count = quantity THEN "added"
    ELSE IF success_count > 0 THEN "partial"
    ELSE "failed"

\* ApplyItem never visiting the page of the URL: the add is tried on the page
\* the browser is on
ApplyItemNoNavigate(r, url, nav, add, units) ==
    IF add = "ok"
    THEN [r EXCEPT !.outcome = OutcomeOf(r.quantity, r.quantity),
                   !.ops = r.ops \o <<"add">>,
                   !.units = units, !.success_count = r.quantity]
    ELSE [r EXCEPT !.outcome = OutcomeOf(0, r.quantity),
                   !.ops = r.ops \o <<"add">>,
                   !.fault = (add = "fault")]

\* lines 1199-1230: visit the page when there is a URL (_find_product_by_url
\* is False on an exception only), then _add_to_cart(quantity), which
\* answers True or False and catches every exception; units is what a
\* successful add really puts into the cart
ApplyItem(r, url, nav, add, units) ==
    IF url # "" /\ nav # "ok"
    THEN [r EXCEPT !.outcome = "failed", !.ops = r.ops \o <<"navigate">>,
                   !.fault = TRUE]
    ELSE LET ops2 == r.ops \o (IF url # "" THEN <<"navigate">> ELSE << >>)
                           \o <<"add">>
         IN  IF add = "ok"
             THEN [r EXCEPT !.outcome = OutcomeOf(r.quantity, r.quantity),
                            !.ops = ops2,
                            !.units = units, !.success_count = r.quantity]
             ELSE [r EXCEPT !.outcome = OutcomeOf(0, r.quantity), !.ops = ops2,
                            !.fault = (add = "fault")]

\* the mutant of SearchThenAdd: an unresolved item fails without a search
SearchThenAddNoSearch(r, why, search, add, units) ==
    [r EXCEPT !.outcome = "failed", !.reason = why]

\* lines 1182-1187 and 1192-1197: _find_product_by_search(title), which
\* catches every exception, then the add on the page the search opened
SearchThenAdd(r, why, search, add, units) ==
    IF search = "ok"
    THEN ApplyItem([r EXCEPT !.ops = r.ops \o <<"search">>, !.search = search],
                   "", "ok", add, units)
    ELSE [r EXCEPT !.outcome = "failed", !.ops = r.ops \o <<"search">>,
                   !.search = search, !.fault = (search = "fault"), !.reason = why]

\* One iteration of the for loop of add_products (lines 1139-1252) for
\* product, against the titles read at the start of the pass, with
\* matched_product what the Matcher answers when it is asked (line 1161);
\* search, nav and add are the site's answers.  ops lists the remote
\* operations performed.
ItemOutcome(product, items, matched_product, search, nav, add, units) ==
    LET base == ItemStart(product)
    IN  IF IsProductInCart(product.title, items)
        THEN [base EXCEPT !.outcome = "skipped"]
        ELSE IF product.product_url # ""
        THEN ApplyItem(base, product.product_url, nav, add, units)
        ELSE IF matched_product # NoProduct
        THEN IF matched_product.product_url # ""
             THEN ApplyItem([base EXCEPT !.product = UpdateProduct(product, matched_product),
                                         !.matcher = "found",
                                         !.matched = matched_product],
                            matched_product.product_url, nav, add, units)
             ELSE SearchThenAdd([base EXCEPT !.matcher = "found",
                                             !.matched = matched_product],
                                "no product_url, search failed", search, add, units)
        ELSE SearchThenAdd([base EXCEPT !.matcher = "none"],
                           "not found in JSON, search failed", search, add, units)

\* line 1161: the Matcher over available_products and the eerder-gekocht file
MatchedProduct(product, index, eerder) ==
    FindProductInAllSources(product.title, index, eerder, ThresholdAll)

\* the mutant of NextIndex: a fault ends the for loop
NextIndexAbortOnFault(r, i, n) == IF r.fault THEN n + 1 ELSE i + 1

\* the for loop goes on with the next product whatever happened to this one
\* (continue at 1154, 1187, 1197; fall through at 1252)
NextIndex(r, i, n) == i + 1

\* lines 1232-1249 and 1151: the counters and failed_products after one item
AddedAfter(added, r) == added + r.success_count

SkippedAfter(skipped, r) ==
    IF r.outcome = "skipped" THEN skipped + r.quantity ELSE skipped

FailedAfter(failed, r) ==
    IF r.outcome = "failed"
    THEN Append(failed, [title |-> r.title, quantity |-> r.quantity,
                         reason |-> r.reason])
    ELSE IF r.outcome = "partial"
    THEN Append(failed, [title |-> r.title, quantity |-> r.quantity,
                         reason |-> "only partly added"])
    ELSE failed

\* the CartResult of lines 1254-1262; skipped_count is reported in the message
\* only
Summary(added, skipped, failed) ==
    [success |-> (added > 0 \/ skipped > 0), added_count |-> added,
     failed_count |-> Len(failed), failed_products |-> failed,
     message |-> [text |-> "added_skipped", added |-> added, skipped |-> skipped]]

\* the CartResult of lines 1122-1128
CartNotEmptyResult ==
    [success |-> TRUE, added_count |-> 0, failed_count |-> 0,
     failed_products |-> << >>, message |-> [text |-> "cart_not_empty"]]

\* result before add_products has returned
NoResult == [message |-> [text |-> "none"]]

-----------------------------------------------------------------------------
(* Catalog files: AHBonusScraper._load_cache, scrape_bonus_products,          *)
(* CartAutomation._load_eerder_gekocht and the loading in main                *)

\* what a catalog file holds.  kind: "missing" (no such file), "unreadable"
\* (open fails), "not_json" (json.load fails), "scalar" (JSON that is neither
\* an object nor an array), "object" or "array"; timestamp: "absent", "fresh",
\* "expired" or "malformed" (no ISO date); products: the entries
CatalogFile(kind, timestamp, has_products, products) ==
    [kind |-> kind, timestamp |-> timestamp, has_products |-> has_products,
     products |-> products]

\* a call that raised, and a call that returned value
Raises == [raised |-> TRUE, value |-> [tag |-> "None", list |-> << >>]]
Returns(value) == [raised |-> FALSE, value |-> value]

\* None, and a list, as returned values
NoneValue == [tag |-> "None", list |-> << >>]
ListValue(l) == [tag |-> "list", list |-> l]

\* open(...) and json.load(f): raises, or gives a dict, a list or something else
JsonLoad(file) ==
    IF file.kind \in {"unreadable", "not_json"} THEN Raises
    ELSE Returns([type |-> CASE file.kind = "object" -> "dict"
                             [] file.kind = "array" -> "list"
                             [] OTHER -> "other",
                  timestamp |-> IF file.kind = "object" THEN file.timestamp
                                ELSE "absent",
                  has_products |-> file.kind = "object" /\ file.has_products,
                  products |-> IF file.kind \in {"object", "array"}
                               THEN file.products ELSE << >>])

\* try: body except Exception: return fallback, without the handler
TryExceptReraise(body, fallback) == body

\* try: body except Exception: return fallback
TryExcept(body, fallback) ==
    IF body.raised THEN Returns(fallback) ELSE body

\* scraper.py:44-60, the body of the try of _load_cache
LoadCacheBody(file) ==
    LET cache_data == JsonLoad(file)
    IN  IF cache_data.raised THEN Raises
        ELSE IF cache_data.value.type = "dict"
                /\ cache_data.value.timestamp # "absent"
        THEN IF cache_data.value.timestamp = "malformed" THEN Raises
             ELSE IF cache_data.value.timestamp = "fresh"
             THEN Returns(ListValue(IF cache_data.value.has_products
                                    THEN cache_data.value.products ELSE << >>))
             ELSE Returns(NoneValue)
        ELSE Returns(NoneValue)

\* AHBonusScraper._load_cache()
LoadCache(file) ==
    IF file.kind = "missing" THEN Returns(NoneValue)
    ELSE TryExcept(LoadCacheBody(file), NoneValue)

\* the shapes accepted for the eerder-gekocht file (cart_automation.py:81-85,
\* main.py:49-55): the products of an object, or the array itself
EerderProducts(file) ==
    LET data == JsonLoad(file)
    IN  IF data.raised THEN Raises
        ELSE IF data.value.type = "dict" /\ data.value.has_products
        THEN Returns(ListValue(data.value.products))
        ELSE IF data.value.type = "list"
        THEN Returns(ListValue(data.value.products))
        ELSE Returns(ListValue(<< >>))

\* CartAutomation._load_eerder_gekocht() when nothing is cached yet
LoadEerderGekocht(file) ==
    IF file.kind = "missing" THEN Returns(ListValue(<< >>))
    ELSE TryExcept(EerderProducts(file), ListValue(<< >>))

\* main.py:58-65: the entries without a source get 'eerder-gekocht'
WithSource(list) ==
    [i \in DOMAIN list |->
        IF list[i].source = "" THEN [list[i] EXCEPT !.source = "eerder-gekocht"]
        ELSE list[i]]

\* main.py:43-71: previously_buy_products
LoadPreviouslyBuy(file) ==
    IF file.kind = "missing" THEN Returns(ListValue(<< >>))
    ELSE LET body == EerderProducts(file)
         IN  TryExcept(IF body.raised THEN body
                       ELSE Returns(ListValue(WithSource(body.value.list))),
                       ListValue(<< >>))

\* scrape_bonus_products(use_cache=True): the cached products when there are
\* any, otherwise what the scrape of the bonus page gives (scraper.py:531-557)
ScrapeBonusProducts(file, scrape) ==
    LET cached_products == LoadCache(file)
    IN  IF cached_products.raised THEN Raises
        ELSE IF cached_products.value.tag = "list"
                /\ cached_products.value.list # << >>
        THEN cached_products
        ELSE Returns(ListValue(scrape))

\* _save_cache(products): the bonus products under the timestamp of now
\* (scraper.py:153-169)
SavedCache(products) ==
    CatalogFile("object", "fresh", TRUE,
                SelectSeq(products, LAMBDA p : p.source = "bonus"))

\* the cache file after scrape_bonus_products: written when the page was
\* scraped and gave products (scraper.py:546, 833)
CacheAfterScrape(file, scrape) ==
    LET cached_products == LoadCache(file)
    IN  IF cached_products.value.tag = "list" /\ cached_products.value.list # << >>
        THEN file
        ELSE IF scrape # << >> THEN SavedCache(scrape)
        ELSE file

\* main.py:77-84: json.dump(all_products, f) into products_cache_file
DumpedProducts(all) == CatalogFile("array", "absent", FALSE, all)

\* scraper.py:103-114: existing_products, [] when the file is missing, cannot
\* be loaded or has neither shape
ExistingProducts(file) ==
    IF file.kind = "missing" THEN << >>
    ELSE TryExcept(EerderProducts(file), ListValue(<< >>)).value.list

\* f"{title}|{url}" of the lower-cased, stripped title and of product_url
\* (scraper.py:119-121, 127-129)
EerderKey(p) == <<Strip(Lower(p.title)), "|", p.product_url>>

\* scraper.py:117-122: existing_keys
ExistingKeys(existing_products) ==
    {EerderKey(existing_products[i]) : i \in DOMAIN existing_products}

\* NewProducts of a loop that appends every product
NewProductsAll(eerder_products, existing_keys) == eerder_products

\* scraper.py:125-132: new_products, the products whose key is neither in
\* existing_keys nor that of a product taken before
RECURSIVE NewProducts(_, _)
NewProducts(eerder_products, existing_keys) ==
    IF eerder_products = << >> THEN << >>
    ELSE LET p == Head(eerder_products)
         IN  IF EerderKey(p) \notin existing_keys
             THEN <<p>> \o NewProducts(Tail(eerder_products),
                                       existing_keys \cup {EerderKey(p)})
             ELSE NewProducts(Tail(eerder_products), existing_keys)

\* AHBonusScraper._save_eerder_gekocht_products(products): the file after the
\* call (scraper.py:91-151)
SaveEerderGekochtProducts(file, save_products) ==
    LET eerder_products ==
            SelectSeq(save_products, LAMBDA p : p.source = "eerder-gekocht")
        existing_products == ExistingProducts(file)
        new_products == NewProducts(eerder_products,
                                    ExistingKeys(existing_products))
    IN  IF eerder_products = << >> THEN file
        ELSE CatalogFile("object", "fresh", TRUE,
                         existing_products \o new_products)

\* the loader named loader on file
Loader(loader, file, scrape) ==
    CASE loader = "load_cache" -> LoadCache(file)
      [] loader = "load_eerder_gekocht" -> LoadEerderGekocht(file)
      [] loader = "load_previously_buy" -> LoadPreviouslyBuy(file)
      [] OTHER -> ScrapeBonusProducts(file, scrape)

-----------------------------------------------------------------------------
(* State *)

VARIABLES
    \* one Matcher call
    product_title,        \* the title looked for
    available_products,   \* the list handed in by the caller
    eerder_gekocht,       \* the content of the eerder-gekocht file
    matched,              \* what the call returned
    called,               \* "none", "all_sources" or "eerder_gekocht"
    \* one call of _is_product_in_cart
    in_cart,              \* what the call returned
    \* one call of a catalog loader
    cache_file,           \* what the file holds
    file_read,            \* what the file held when the last call read it
    scraped,              \* what a scrape of the bonus page gives
    loaded,               \* what the call returned, or that it raised
    \* the remote cart
    remote_titles,        \* lower-cased titles of the products in the cart
    remote_total,         \* its total amount, in euros
    \* main
    pc,                   \* where main stands
    buckets,              \* the items of all buckets, merged
    cart_check,           \* the last answer of check_cart_with_llm
    attempt,              \* attempt of the while loop
    start_total,          \* cart_total read at line 164 (-1: not read yet)
    final_total,          \* final_total (-1: not read)
    current_total,        \* current_total of the while loop (-1: not read)
    \* add_products
    ret,                  \* where the caller goes on after the call
    products,             \* the list being added
    force_add,
    from_buckets,         \* the pass was started by add_from_buckets
    cart_items,           \* titles read at the start of the pass
    added_count,
    skipped_count,
    failed_products,
    result,               \* the CartResult returned
    \* history, for the properties only
    log,                  \* what was done for each item of the current pass
    cart_before,          \* the titles really in the cart when the pass began
    prev_pass,            \* the titles the user took out of the cart, and
                          \* those of the items that were skipped for them
    passes,               \* calls of add_products so far
    llm_checks            \* calls of check_cart_with_llm so far

loaderVars  == <<cache_file, file_read, scraped, loaded>>
matcherVars == <<product_title, available_products, eerder_gekocht, matched, called,
                 in_cart, loaderVars>>
remoteVars  == <<remote_titles, remote_total>>
mainVars    == <<pc, buckets, cart_check, attempt, start_total, final_total,
                 current_total>>
passVars    == <<ret, products, force_add, from_buckets, cart_items,
                 added_count, skipped_count, failed_products, result>>
histVars    == <<log, cart_before, prev_pass, passes, llm_checks>>

vars == <<matcherVars, remoteVars, mainVars, passVars, histVars>>

\* the state of the workflow while only Matcher calls are made
WorkflowIdle ==
    /\ remote_titles = {} /\ remote_total = 0
    /\ pc = "idle" /\ buckets = << >>
    /\ cart_check = [satisfied |-> FALSE, products_to_add |-> << >>]
    /\ attempt = 0 /\ start_total = -1 /\ final_total = -1 /\ current_total = -1
    /\ ret = "none" /\ products = << >> /\ force_add = FALSE /\ from_buckets = FALSE
    /\ added_count = 0 /\ skipped_count = 0 /\ failed_products = << >>
    /\ result = NoResult
    /\ log = << >> /\ cart_before = {} /\ passes = 0 /\ llm_checks = 0
    /\ prev_pass = [cart |-> {}, skipped |-> {}]

\* no catalog file is looked at
LoaderIdle ==
    /\ cache_file = CatalogFile("missing", "absent", FALSE, << >>)
    /\ file_read = cache_file
    /\ scraped = << >>
    /\ loaded = Returns(NoneValue)

\* the state of the Matcher variables while the workflow runs
MatcherIdle ==
    /\ product_title = << >> /\ available_products = << >> /\ eerder_gekocht = << >>
    /\ matched = NoProduct /\ called = "none" /\ in_cart = FALSE
    /\ LoaderIdle

-----------------------------------------------------------------------------
(* Matcher calls over drawn catalogs *)

MatcherInit ==
    /\ product_title \in SearchTitles
    /\ available_products \in SeqsUpTo(BonusPool, MaxAvail)
    /\ eerder_gekocht \in SeqsUpTo(EerderPool, MaxEerder)
    /\ matched = NoProduct
    /\ called = "none"
    /\ in_cart = FALSE
    /\ cart_items = {}
    /\ LoaderIdle
    /\ WorkflowIdle

\* ArgumentAfterMerge of a Matcher that extends the caller's list in place
ArgumentAfterMergeInPlace(available, eerder) == available \o eerder

\* lines 105-115: all_products is a new list, extended by the caller's list
\* and by the eerder-gekocht products; the caller's list stays as it is
ArgumentAfterMerge(available, eerder) == available

\* _find_product_in_all_sources(title, available_products) with the default threshold
CallFindInAllSources ==
    /\ called = "none"
    /\ matched' = FindProductInAllSources(product_title, available_products,
                                          eerder_gekocht, ThresholdAll)
    /\ available_products' = ArgumentAfterMerge(available_products, eerder_gekocht)
    /\ called' = "all_sources"
    /\ UNCHANGED <<product_title, eerder_gekocht, in_cart, loaderVars>>
    /\ UNCHANGED <<remoteVars, mainVars, passVars, histVars>>

\* _find_product_in_eerder_gekocht(title)
CallFindInEerderGekocht ==
    /\ called = "none"
    /\ matched' = FindProductInEerderGekocht(product_title, eerder_gekocht)
    /\ called' = "eerder_gekocht"
    /\ UNCHANGED <<product_title, available_products, eerder_gekocht, in_cart,
                   loaderVars>>
    /\ UNCHANGED <<remoteVars, mainVars, passVars, histVars>>

MatcherNext == CallFindInAllSources \/ CallFindInEerderGekocht

MatcherSpec == MatcherInit /\ [][MatcherNext]_vars

-----------------------------------------------------------------------------
(* Calls of _is_product_in_cart over drawn titles and cart contents *)

T_KAAS48  == <<"K","A","A","S"," ","4","8","+">>
T_kaas_4  == <<"k","a","a","s"," ","4">>
T_kaasp   == <<"k","a","a","s","p">>
T_kaas48x == <<"k","a","a","s"," ","4","8","+"," ","x">>

\* the titles asked for
LookupTitles == {T_kaas, T_Kaas_sp, T_sp_KAAS, T_KAAS48, T_kaas_4, T_kaasp,
                 T_kaasplank, T_kalf}

\* the titles _get_cart_items may have read: lower-cased and stripped
\* (lines 1678-1734)
CartTitlePool == {T_kaas, T_kaas48, T_kaasplank, T_kaas48x, T_kaasp}

\* the lists of titles handed to _is_product_in_cart: up to MaxCart titles, or
\* the mark of line 1104
LookupCarts ==
    {c \in SUBSET CartTitlePool : Cardinality(c) <= MaxCart}
        \cup {{CartNotEmptyMark}}

LookupInit ==
    /\ product_title \in LookupTitles
    /\ cart_items \in LookupCarts
    /\ available_products = << >> /\ eerder_gekocht = << >>
    /\ matched = NoProduct
    /\ called = "none"
    /\ in_cart = FALSE
    /\ LoaderIdle
    /\ WorkflowIdle

\* _is_product_in_cart(product_title, cart_items)
CallIsProductInCart ==
    /\ called = "none"
    /\ in_cart' = IsProductInCart(product_title, cart_items)
    /\ called' = "is_product_in_cart"
    /\ UNCHANGED <<product_title, available_products, eerder_gekocht, matched,
                   loaderVars>>
    /\ UNCHANGED <<remoteVars, mainVars, passVars, histVars>>

LookupNext == CallIsProductInCart

LookupSpec == LookupInit /\ [][LookupNext]_vars

-----------------------------------------------------------------------------
(* Properties of _is_product_in_cart, checked under LookupSpec *)

LookedUp == called = "is_product_in_cart"

\* the cart titles were read, not replaced by the mark
TitlesKnown == CartNotEmptyMark \notin cart_items

\* the shorter of the titles n and c is at least 5 characters long and at
\* least 0.6 of the longer, and one of them lies within the other
PartlyMatches(n, c) ==
    LET shorter == IF Len(n) <= Len(c) THEN n ELSE c
        longer  == IF Len(n) <= Len(c) THEN c ELSE n
    IN  /\ \E k \in 0..(Len(longer) - Len(shorter)) :
               \A i \in 1..Len(shorter) : longer[k + i] = shorter[i]
        /\ Len(shorter) >= 5
        /\ 10 * Len(shorter) >= 6 * Len(longer)

\* a cart title matches the desired title as normalized to n
Matches(n, c) == c = n \/ PartlyMatches(n, c)

\* C13 as stated, the normalized desired title being the lower-cased, trimmed
\* one: the title is found iff some cart title equals it or partly matches it;
\* under 5 characters only equality counts.
C13_ContainsAsStated ==
    (LookedUp /\ TitlesKnown) =>
        LET n == NormalizeTitle(product_title)
        IN  /\ in_cart <=> \E c \in cart_items : Matches(n, c)
            /\ Len(n) < 5 => (in_cart <=> n \in cart_items)

\* C13 amended: the desired title is lower-cased but not trimmed; the title is
\* found iff some cart title equals the lower-cased desired title, or partly
\* matches it with the shorter of the two at least 5 characters long and at
\* least 0.6 of the longer; a lower-cased title of under 5 characters is
\* found by equality only.
C13_Contains ==
    (LookedUp /\ TitlesKnown) =>
        LET n == Lower(product_title)
        IN  /\ in_cart <=> \E c \in cart_items : Matches(n, c)
            /\ Len(n) < 5 => (in_cart <=> n \in cart_items)

\* a title of 6 characters is found in a cart whose only title has 10 and
\* contains it: the ratio is exactly 0.6
C13_Witness ==
    /\ LookedUp
    /\ product_title = T_kaas_4
    /\ cart_items = {T_kaas48x}
    /\ in_cart

-----------------------------------------------------------------------------
(* Calls of the catalog loaders over drawn files *)

\* an entry written without a source
F_kalf == Entry(T_kalf, "", 1, "")

FileEntries == {B_kaas48_url, E_kaasplank, F_kalf}

FileLists == SeqsUpTo(FileEntries, MaxFile)

CatalogFiles ==
    {CatalogFile(k, "absent", FALSE, << >>) :
        k \in {"missing", "unreadable", "not_json", "scalar"}}
    \cup {CatalogFile("object", t, h, IF h THEN l ELSE << >>) :
            t \in {"absent", "fresh", "expired", "malformed"},
            h \in BOOLEAN, l \in FileLists}
    \cup {CatalogFile("array", "absent", FALSE, l) : l \in FileLists}

Loaders == {"load_cache", "load_eerder_gekocht", "load_previously_buy",
            "scrape_bonus_products"}

LoaderInit ==
    /\ cache_file \in CatalogFiles
    /\ file_read = cache_file
    /\ scraped \in {<< >>, <<B_kabel_url>>}
    /\ loaded = Returns(NoneValue)
    /\ product_title = T_kaas
    /\ available_products = << >> /\ eerder_gekocht = << >>
    /\ matched = NoProduct
    /\ called = "none"
    /\ in_cart = FALSE
    /\ cart_items = {}
    /\ WorkflowIdle

\* one call of a loader on the file, at the start or after a run of main
CallLoader(loader) ==
    /\ called \in {"none", "main", "main_late"}
    /\ loaded' = Loader(loader, cache_file, scraped)
    /\ file_read' = cache_file
    /\ cache_file' = IF loader = "scrape_bonus_products"
                     THEN CacheAfterScrape(cache_file, scraped)
                     ELSE cache_file
    /\ called' = loader
    /\ UNCHANGED <<product_title, available_products, eerder_gekocht, matched,
                   in_cart, scraped>>
    /\ UNCHANGED <<remoteVars, mainVars, passVars, histVars>>

\* the previously bought products of the run of main
RunPreviouslyBuy == <<E_kaasplank>>

\* main.py:37-84 on the cache file: scrape_bonus_products(use_cache=True),
\* return when it gives nothing, otherwise dump bonus_products +
\* previously_buy_products into the cache file
MainLoadsProducts ==
    /\ called = "none"
    /\ LET bonus_products == ScrapeBonusProducts(cache_file, scraped)
       IN  /\ loaded' = bonus_products
           /\ file_read' = cache_file
           /\ IF bonus_products.value.list = << >>
              THEN /\ called' = "main_exit"
                   /\ cache_file' = CacheAfterScrape(cache_file, scraped)
              ELSE /\ called' = "main"
                   /\ cache_file' = DumpedProducts(bonus_products.value.list
                                                    \o RunPreviouslyBuy)
    /\ UNCHANGED <<product_title, available_products, eerder_gekocht, matched,
                   in_cart, scraped>>
    /\ UNCHANGED <<remoteVars, mainVars, passVars, histVars>>

\* after the run, cache_expiry_hours go by
WindowElapses ==
    /\ called = "main"
    /\ called' = "main_late"
    /\ cache_file' = IF cache_file.kind = "object" /\ cache_file.timestamp = "fresh"
                     THEN [cache_file EXCEPT !.timestamp = "expired"]
                     ELSE cache_file
    /\ UNCHANGED <<product_title, available_products, eerder_gekocht, matched,
                   in_cart, file_read, scraped, loaded>>
    /\ UNCHANGED <<remoteVars, mainVars, passVars, histVars>>

\* AHBonusScraper._load_cache()
CallLoadCache == CallLoader("load_cache")

\* CartAutomation._load_eerder_gekocht()
CallLoadEerderGekocht == CallLoader("load_eerder_gekocht")

\* the loading of previously_buy_products in main
CallLoadPreviouslyBuy == CallLoader("load_previously_buy")

\* AHBonusScraper.scrape_bonus_products(use_cache=True)
CallScrapeBonusProducts == CallLoader("scrape_bonus_products")

LoaderNext ==
    \/ CallLoadCache
    \/ CallLoadEerderGekocht
    \/ CallLoadPreviouslyBuy
    \/ CallScrapeBonusProducts
    \/ MainLoadsProducts
    \/ WindowElapses

LoaderSpec == LoaderInit /\ [][LoaderNext]_vars

-----------------------------------------------------------------------------
(* Properties of the catalog loaders, checked under LoaderSpec *)

Loaded == called \in Loaders

\* the file cannot be read as a catalog: it cannot be opened, is no JSON, or
\* is JSON of neither persisted shape; for the timestamped cache also an
\* object whose timestamp is no date
Corrupt(loader, file) ==
    \/ file.kind \in {"unreadable", "not_json", "scalar"}
    \/ /\ loader \in {"load_cache", "scrape_bonus_products"}
       /\ file.kind = "object" /\ file.timestamp = "malformed"

\* C16: when the catalog cache or a source file is unreadable or malformed,
\* loading it does not raise: it counts as absent (_load_cache gives None,
\* the loaders of the eerder-gekocht file give no entries), and
\* scrape_bonus_products goes on with what a fresh scrape gives
C16_CacheCorrupt ==
    (Loaded /\ Corrupt(called, file_read)) =>
        /\ ~loaded.raised
        /\ called = "load_cache" => loaded.value = NoneValue
        /\ called \in {"load_eerder_gekocht", "load_previously_buy"} =>
               loaded.value = ListValue(<< >>)
        /\ called = "scrape_bonus_products" => loaded.value = ListValue(scraped)

\* the cache is no JSON and the scrape that follows gives a product
C16_Witness ==
    /\ called = "scrape_bonus_products"
    /\ file_read.kind = "not_json"
    /\ scraped = <<B_kabel_url>>
    /\ loaded = Returns(ListValue(<<B_kabel_url>>))

\* the object form of the entries of a file (a cache within its validity)
ObjectForm(file) == CatalogFile("object", "fresh", TRUE, file.products)

\* C17: every catalog loader accepts both persisted shapes: on a bare array
\* it gives the list it gives on the object holding the same entries
C17_BothShapes ==
    (Loaded /\ file_read.kind = "array") =>
        /\ ~loaded.raised
        /\ loaded = Loader(called, ObjectForm(file_read), scraped)

\* C28 (cache round trip): after a run of main has written the product
\* cache, a load within the validity window gives the bonus products of the
\* run, so that scrape_bonus_products gives them without scraping and leaves
\* the cache as it is; a load after the window gives None.
C28_CacheRoundTrip ==
    [][/\ (called = "main" /\ called' \in {"load_cache", "scrape_bonus_products"}) =>
           /\ loaded' = loaded
           /\ cache_file' = cache_file
       /\ (called = "main_late" /\ called' = "load_cache") =>
           loaded' = Returns(NoneValue)]_vars

-----------------------------------------------------------------------------
(* Calls of _save_eerder_gekocht_products over a drawn eerder-gekocht file *)

\* 'kaas' under the identifier of E_Kaas_url: another entry with the same key
E_kaas_p5 == Entry(T_kaas, "/p/5", 2, "eerder-gekocht")

SavePool == {E_Kaas_url, E_kaas_p5, E_kaasplank, B_kalf}

SaveLists == SeqsUpTo(SavePool, MaxFile)

EerderFiles ==
    {CatalogFile(k, "absent", FALSE, << >>) :
        k \in {"missing", "unreadable", "not_json", "scalar"}}
    \cup {CatalogFile("object", t, TRUE, l) :
            t \in {"absent", "fresh"}, l \in SaveLists}
    \cup {CatalogFile("object", "fresh", FALSE, << >>)}
    \cup {CatalogFile("array", "absent", FALSE, l) : l \in SaveLists}

SaveInit ==
    /\ cache_file \in EerderFiles
    /\ file_read = cache_file
    /\ scraped = << >>
    /\ loaded = Returns(NoneValue)
    /\ product_title = T_kaas
    /\ available_products = << >> /\ eerder_gekocht = << >>
    /\ matched = NoProduct
    /\ called = "none"
    /\ in_cart = FALSE
    /\ cart_items = {}
    /\ WorkflowIdle

\* one call of _save_eerder_gekocht_products(save_products)
CallSaveEerderGekochtProducts ==
    /\ \E save_products \in SaveLists :
        cache_file' = SaveEerderGekochtProducts(cache_file, save_products)
    /\ file_read' = cache_file
    /\ called' = "save_eerder_gekocht_products"
    /\ UNCHANGED <<product_title, available_products, eerder_gekocht, matched,
                   in_cart, scraped, loaded>>
    /\ UNCHANGED <<remoteVars, mainVars, passVars, histVars>>

SaveNext == CallSaveEerderGekochtProducts

SaveSpec == SaveInit /\ [][SaveNext]_vars

\* the entries a file stores
StoredEntries(file) ==
    IF file.kind \in {"object", "array"} THEN file.products ELSE << >>

\* the key of the statement: normalized title and product_url
StatedKey(p) == <<NormalizeTitle(p.title), p.product_url>>

SaveKeepsAndAppendsNew ==
    LET before == StoredEntries(cache_file)
        after == StoredEntries(cache_file')
    IN  /\ Len(after) >= Len(before)
        /\ SubSeq(after, 1, Len(before)) = before
        /\ \A i \in (Len(before) + 1)..Len(after) :
               \A j \in 1..(i - 1) : StatedKey(after[j]) # StatedKey(after[i])

\* C30 (incremental save): a call of _save_eerder_gekocht_products keeps the
\* entries the file stored, in their order, and appends no entry whose key
\* (normalized title, product_url) is that of an entry stored before or
\* appended earlier in the same call.
C30_IncrementalSave == [][SaveKeepsAndAppendsNew]_vars

\* a call has appended 'Kaas ' under /p/5 to a file that stored the
\* kaasplank
C30_Witness ==
    /\ called = "save_eerder_gekocht_products"
    /\ file_read.kind = "array"
    /\ file_read.products = <<E_kaasplank>>
    /\ cache_file.kind = "object"
    /\ cache_file.products = <<E_kaasplank, E_Kaas_url>>

-----------------------------------------------------------------------------
(* Properties of the Matcher, checked under MatcherSpec *)

\* the index and the threshold of the call that was made
CalledIndex ==
    IF called = "eerder_gekocht" THEN eerder_gekocht
    ELSE available_products \o eerder_gekocht
CalledThreshold ==
    IF called = "eerder_gekocht" THEN ThresholdEerder ELSE ThresholdAll

\* lower-cased and trimmed, written out independently of NormalizeTitle
IsNormalFormOf(n, title) ==
    \E lo \in 1..(Len(title) + 1) : \E hi \in 0..Len(title) :
        /\ \A i \in 1..(lo - 1) : title[i] = " "
        /\ \A i \in (hi + 1)..Len(title) : title[i] = " "
        /\ lo <= hi => title[lo] # " " /\ title[hi] # " "
        /\ Len(n) = hi - lo + 1
        /\ \A i \in 1..Len(n) : n[i] = LowerChar(title[lo + i - 1])

SameNormalTitle(t1, t2) ==
    \E n \in {NormalizeTitle(t1)} : IsNormalFormOf(n, t1) /\ IsNormalFormOf(n, t2)

ExactPositions == {i \in DOMAIN CalledIndex :
                       /\ NormalizeTitle(CalledIndex[i].title) # << >>
                       /\ SameNormalTitle(CalledIndex[i].title, product_title)}

CandidateScore(product) ==
    Score(NormalizeTitle(product_title), NormalizeTitle(product.title))

\* C6: when some candidate's lower-cased, trimmed title equals the lower-cased,
\* trimmed desired title, the Matcher returns the first such candidate in index
\* order, whatever the other candidates' scores and identifiers.
C6_ExactMatchShortCircuit ==
    (called # "none" /\ ExactPositions # {}) =>
        matched = CalledIndex[CHOOSE i \in ExactPositions :
                                  \A j \in ExactPositions : i <= j]

\* an exact match that differs in case and blanks from the desired title is
\* returned from behind an identifier-bearing candidate with a passing score
C6_Witness ==
    /\ called = "all_sources"
    /\ Len(CalledIndex) = 2
    /\ ExactPositions = {2}
    /\ matched = CalledIndex[2]
    /\ matched.title # product_title
    /\ HasUrl(CalledIndex[1])
    /\ RatGE(CandidateScore(CalledIndex[1]), CalledThreshold)

\* C7: every non-exact entry the Matcher returns scores at least the threshold;
\* a lone candidate is returned exactly when its score is at least the
\* threshold, so a score equal to the threshold is accepted and a lower one
\* gives no match.
C7_ThresholdBoundary ==
    called # "none" =>
        /\ (matched # NoProduct /\ ExactPositions = {}) =>
               RatGE(CandidateScore(matched), CalledThreshold)
        /\ (Len(CalledIndex) = 1 /\ ExactPositions = {}) =>
               (matched = CalledIndex[1]
                    <=> RatGE(CandidateScore(CalledIndex[1]), CalledThreshold))
        /\ (Len(CalledIndex) = 1 /\ ExactPositions = {}
              /\ ~RatGE(CandidateScore(CalledIndex[1]), CalledThreshold)) =>
               matched = NoProduct

\* a lone candidate whose score equals the default threshold 0.5 is returned
C7_Witness ==
    /\ called = "all_sources"
    /\ Len(CalledIndex) = 1
    /\ ExactPositions = {}
    /\ RatEQ(CandidateScore(CalledIndex[1]), ThresholdAll)
    /\ matched = CalledIndex[1]

\* an index of one PRIMARY entry followed by one SECONDARY entry
PrimaryThenSecondary ==
    /\ called = "all_sources"
    /\ Len(available_products) = 1 /\ available_products[1].source = "bonus"
    /\ Len(eerder_gekocht) = 1 /\ eerder_gekocht[1].source = "eerder-gekocht"

PrimaryEntry == available_products[1]
SecondaryEntry == eerder_gekocht[1]

\* C8 as stated: the PRIMARY entry is returned whenever both entries score
\* equally at or above the threshold, or the PRIMARY entry carries an
\* identifier and scores within the relaxed margin (>= 0.8 x threshold).
C8_PriorityAsStated ==
    (/\ PrimaryThenSecondary
     /\ \/ /\ RatGE(CandidateScore(PrimaryEntry), ThresholdAll)
           /\ RatEQ(CandidateScore(PrimaryEntry), CandidateScore(SecondaryEntry))
        \/ /\ HasUrl(PrimaryEntry)
           /\ RatGE(CandidateScore(PrimaryEntry), RelaxedThreshold(ThresholdAll)))
    => matched = PrimaryEntry

\* C8 amended: with the SECONDARY entry not an exact match, the PRIMARY entry is
\* returned whenever both score equally at or above the threshold and agree in
\* identifier presence, or the PRIMARY entry carries an identifier, the
\* SECONDARY one does not, and the PRIMARY entry scores at or above the threshold.
C8_Priority ==
    (/\ PrimaryThenSecondary
     /\ ~SameNormalTitle(SecondaryEntry.title, product_title)
     /\ RatGE(CandidateScore(PrimaryEntry), ThresholdAll)
     /\ \/ /\ HasUrl(PrimaryEntry) = HasUrl(SecondaryEntry)
           /\ RatEQ(CandidateScore(PrimaryEntry), CandidateScore(SecondaryEntry))
        \/ /\ HasUrl(PrimaryEntry)
           /\ ~HasUrl(SecondaryEntry))
    => matched = PrimaryEntry

\* both entries carry an identifier and score equally above the threshold, and
\* the PRIMARY one is returned
C8_Witness ==
    /\ PrimaryThenSecondary
    /\ ~SameNormalTitle(SecondaryEntry.title, product_title)
    /\ ~SameNormalTitle(PrimaryEntry.title, product_title)
    /\ HasUrl(PrimaryEntry) /\ HasUrl(SecondaryEntry)
    /\ PrimaryEntry # SecondaryEntry
    /\ RatGE(CandidateScore(PrimaryEntry), ThresholdAll)
    /\ RatEQ(CandidateScore(PrimaryEntry), CandidateScore(SecondaryEntry))
    /\ matched = PrimaryEntry

\* the positions of the candidates the scan scores
ScoredPositions == {i \in DOMAIN CalledIndex :
                        NormalizeTitle(CalledIndex[i].title) # << >>}

\* the score of every candidate
CandidateScores ==
    [i \in DOMAIN CalledIndex |-> CandidateScore(CalledIndex[i])]

\* some identifier-bearing candidate scores at least 0.8 x threshold
SomeUrlClears(sc) ==
    \E i \in ScoredPositions :
        /\ HasUrl(CalledIndex[i])
        /\ RatGE(sc[i], RelaxedThreshold(CalledThreshold))

\* the candidates that are preferred by identifier presence
PreferredPositions(sc) ==
    LET clears == SomeUrlClears(sc)
    IN  {i \in ScoredPositions : HasUrl(CalledIndex[i]) = clears}

\* the preferred candidates of the highest score, the earliest of them, for
\* the scores sc
WinningPositions(sc) ==
    LET preferred == PreferredPositions(sc)
    IN  {i \in preferred :
            \A j \in preferred :
                /\ RatGE(sc[i], sc[j])
                /\ RatEQ(sc[i], sc[j]) => i <= j}

\* C18: without an exact match, an identifier-bearing candidate scoring at
\* least 0.8 x threshold makes the scan prefer the identifier-bearing
\* candidates over every identifier-less one whatever their scores; among the
\* candidates of the preferred identifier presence the highest score wins, the
\* earliest in index order on equal scores; the winner is returned when its
\* score is at least the threshold and nothing is returned otherwise.
C18_IdentifierPreference ==
    (called # "none" /\ ExactPositions = {}) =>
        LET sc == CandidateScores
            winning == WinningPositions(sc)
        IN  /\ \A i \in winning :
                   matched = IF RatGE(sc[i], CalledThreshold)
                             THEN CalledIndex[i] ELSE NoProduct
            /\ winning = {} => matched = NoProduct

\* an identifier-bearing candidate scoring between 0.8 x threshold and the
\* threshold wins over an earlier identifier-less one scoring above the
\* threshold, so that nothing is returned
C18_Witness ==
    /\ called = "all_sources"
    /\ Len(CalledIndex) = 2
    /\ ExactPositions = {}
    /\ ~HasUrl(CalledIndex[1])
    /\ RatGE(CandidateScore(CalledIndex[1]), CalledThreshold)
    /\ HasUrl(CalledIndex[2])
    /\ RatGE(CandidateScore(CalledIndex[2]), RelaxedThreshold(CalledThreshold))
    /\ ~RatGE(CandidateScore(CalledIndex[2]), CalledThreshold)
    /\ WinningPositions(CandidateScores) = {2}
    /\ matched = NoProduct

RatOne == [num |-> 1, den |-> 1]

\* the composite score as the claim states it, for the normalized titles
StatedScore(search_title, product_name) ==
    LET kws == SearchKeywords(search_title)
        k == KeywordMatches(kws, product_name)
        fuzzy == Ratio(search_title, product_name)
        boosted == [num |-> 12 * fuzzy.num, den |-> 10 * fuzzy.den]
    IN  IF Len(kws) > 0 /\ k > 0
        THEN [num |-> 6 * k * fuzzy.den + 4 * fuzzy.num * Len(kws),
              den |-> 10 * Len(kws) * fuzzy.den]
        ELSE IF ContainsMatch(search_title, product_name)
        THEN IF RatGE(boosted, RatOne) THEN RatOne ELSE boosted
        ELSE fuzzy

\* C22 (score range): the composite score of every candidate the scan scores
\* lies in [0, 1]: 0.6 * keyword_score + 0.4 * fuzzy_score with a keyword
\* found, otherwise min(1.0, 1.2 * fuzzy_score) when one normalized title
\* contains the other, otherwise fuzzy_score.
C22_ScoreRange ==
    called # "none" =>
        \A i \in ScoredPositions :
            LET score == CandidateScore(CalledIndex[i])
            IN  /\ RatGE(score, RatZero)
                /\ RatGE(RatOne, score)
                /\ RatEQ(score, StatedScore(NormalizeTitle(product_title),
                                            NormalizeTitle(CalledIndex[i].title)))

\* C23 (Matcher completeness): the Matcher returns an entry whenever some
\* candidate scores at least the threshold, whatever the order of the
\* candidates and whichever of them carry an identifier; it returns none
\* only when no candidate scores at least the threshold.
C23_Completeness ==
    called # "none" =>
        (matched = NoProduct <=>
            \A i \in ScoredPositions :
                ~RatGE(CandidateScore(CalledIndex[i]), CalledThreshold))

-----------------------------------------------------------------------------
(* The catalogs of a run and what the recommender may answer                 *)

T_brood == <<"b", "r", "o", "o", "d">>

\* the catalogs of the run: bonus products, then the eerder-gekocht file
\* (main.py:74)
bonus_products == <<B_kaas48_url, B_kalf>>
previously_buy_products == <<E_kaasplank>>
all_products == bonus_products \o previously_buy_products

\* the items the recommender writes
LlmAnswer == << LlmItem("dict", T_kaas48, "", 1),
                LlmItem("dict", T_kalf, "", 0),
                LlmItem("dict", T_brood, "", 2),
                LlmItem("dict", T_kaas50, "", 0) >>

\* an answer that names one product twice
NamedTwice == <<LlmAnswer[1], LlmAnswer[1]>>

\* the ends of LlmAnswer of at most n items
Suffixes(n) ==
    {SubSeq(LlmAnswer, Len(LlmAnswer) - k + 1, Len(LlmAnswer)) :
         k \in 0..Min2(n, Len(LlmAnswer))}

\* the beginnings of LlmAnswer of at most n items
Prefixes(n) == {SubSeq(LlmAnswer, 1, k) : k \in 0..Min2(n, Len(LlmAnswer))}

-----------------------------------------------------------------------------
(* One call of add_products                                                  *)

\* get_cart_total_amount(): the total, or 0.0 when it cannot be read
ReadTotals == {remote_total, 0}

\* ReadTitles of a tracker that keeps the titles it read before: those taken
\* out of the cart since are still among them
ReadTitlesOnce == {remote_titles \cup prev_pass.cart, {}}

\* _get_cart_items(): the titles, or [] when they cannot be read
ReadTitles == {remote_titles, {}}

\* lines 1081-1115: the titles add_products works with, from the total, the
\* titles and the price elements it read
SnapshotTitles(cart_total, titles, has_price) ==
    IF cart_total > 0
    THEN IF titles # {} THEN titles
         ELSE IF has_price THEN {CartNotEmptyMark}
         ELSE {}
    ELSE {}

\* the titles add_products may come to work with
Snapshots ==
    {SnapshotTitles(cart_total, titles, has_price) :
         cart_total \in ReadTotals, titles \in ReadTitles, has_price \in BOOLEAN}

\* what the site may answer for one item: units only matter to a successful
\* add, which puts one unit or all of them into the cart
SiteAnswers(quantity) ==
    {a \in [search : SearchOutcomes, nav : NavOutcomes, add : AddOutcomes,
            units : {0, 1, quantity}] :
        a.add = "ok" <=> a.units > 0}

\* lines 1135-1137: the locals before the for loop; products is the list of
\* dictionaries, units and titles what the pass has put into the remote cart
PassStart(list) ==
    [products |-> list, added_count |-> 0, skipped_count |-> 0,
     failed_products |-> << >>, log |-> << >>, units |-> 0, titles |-> {}]

\* the locals after the iteration that ended as r for product i
PassAfter(acc, r, i) ==
    [products        |-> [acc.products EXCEPT ![i] = r.product],
     added_count     |-> AddedAfter(acc.added_count, r),
     skipped_count   |-> SkippedAfter(acc.skipped_count, r),
     failed_products |-> FailedAfter(acc.failed_products, r),
     log             |-> Append(acc.log, r),
     units           |-> acc.units + r.units,
     titles          |-> IF r.units > 0
                         THEN acc.titles \cup {NormalizeTitle(r.product.title)}
                         ELSE acc.titles]

\* the for loop of lines 1139-1252 from product i on: every way it may end,
\* over the answers of the site
RECURSIVE PassOutcomes(_, _, _, _)
PassOutcomes(list, items, i, acc) ==
    IF i > Len(list) THEN {acc}
    ELSE LET product == list[i]
             matched_product ==
                 MatchedProduct(product, all_products, previously_buy_products)
             rs == {ItemOutcome(product, items, matched_product,
                                a.search, a.nav, a.add, a.units) :
                        a \in SiteAnswers(Quantity(product))}
         IN  UNION {PassOutcomes(list, items, NextIndex(r, i, Len(list)),
                                 PassAfter(acc, r, i)) : r \in rs}

\* SkipsAdding heedless of force_add
SkipsAddingThoughForced(cart_not_empty, force) == cart_not_empty

\* line 1118: if cart_not_empty and not force_add
SkipsAdding(cart_not_empty, force) == cart_not_empty /\ ~force

\* add_products(products, force_add=force_add) from its first line to its
\* return: read the cart (1076-1115), return at once when it is not empty and
\* force_add is off (1118-1129), otherwise run the for loop and sum up
\* (1131-1273).  The dictionaries of the list are the caller's: what the loop
\* writes into them shows in the buckets or in cart_check.
AddProducts ==
    /\ pc = "add_products"
    /\ pc' = ret
    /\ passes' = passes + 1
    /\ cart_before' = remote_titles
    /\ UNCHANGED prev_pass
    /\ \E items \in Snapshots :
        LET cart_not_empty == (items # {})
        IN  /\ cart_items' = items
            /\ IF SkipsAdding(cart_not_empty, force_add)
               THEN /\ result' = CartNotEmptyResult
                    /\ added_count' = 0
                    /\ skipped_count' = 0
                    /\ failed_products' = << >>
                    /\ log' = << >>
                    /\ UNCHANGED <<remoteVars, products>>
               ELSE \E o \in PassOutcomes(products, items, 1, PassStart(products)) :
                    /\ result' = Summary(o.added_count, o.skipped_count,
                                         o.failed_products)
                    /\ products' = o.products
                    /\ added_count' = o.added_count
                    /\ skipped_count' = o.skipped_count
                    /\ failed_products' = o.failed_products
                    /\ log' = o.log
                    /\ remote_total' = remote_total + UnitPrice * o.units
                    /\ remote_titles' = remote_titles \cup o.titles
    /\ IF from_buckets
       THEN /\ buckets' = products'
            /\ UNCHANGED cart_check
       ELSE /\ cart_check' = [cart_check EXCEPT !.products_to_add = products']
            /\ UNCHANGED buckets
    /\ UNCHANGED <<matcherVars, attempt, start_total, final_total, current_total,
                   ret, force_add,
                   from_buckets, llm_checks>>

\* the locals of add_products outside a call
ResetLocals ==
    /\ cart_items' = {}
    /\ added_count' = 0 /\ skipped_count' = 0 /\ failed_products' = << >>
    /\ log' = << >> /\ cart_before' = {}

NoLocals == ResetLocals /\ UNCHANGED prev_pass

\* the call cart.add_products(list, force_add=force), or add_from_buckets
\* when bucket_call: the arguments are bound, the caller goes on at back
BindArguments(list, force, bucket_call, back) ==
    /\ products' = list
    /\ force_add' = force
    /\ from_buckets' = bucket_call
    /\ ret' = back
    /\ pc' = "add_products"
    /\ result' = NoResult

CallAddProducts(list, force, bucket_call, back) ==
    BindArguments(list, force, bucket_call, back) /\ NoLocals

-----------------------------------------------------------------------------
(* Add passes over drawn lists and carts                                     *)

\* the lists drawn: what check_cart_with_llm makes of a beginning or an end
\* of the answer, and what generate_buckets makes of a beginning of it
PassLists ==
    {ProductsToAdd(l, all_products) : l \in Prefixes(MaxItems) \cup Suffixes(MaxItems)}
    \cup {GenerateBuckets(l, all_products) : l \in Prefixes(MaxItems)}
    \cup {ProductsToAdd(NamedTwice, all_products)}

\* the carts drawn
PassCarts == { [titles |-> {}, total |-> 0],
               [titles |-> {NormalizeTitle(T_kaas48), NormalizeTitle(T_kalf)},
                total |-> 40] }

PassInit ==
    /\ MatcherIdle
    /\ \E c \in PassCarts : remote_titles = c.titles /\ remote_total = c.total
    /\ pc = "add_products"
    /\ ret = "returned"
    /\ buckets = << >>
    /\ products \in PassLists
    /\ cart_check = [satisfied |-> FALSE, products_to_add |-> products]
    /\ attempt = 0 /\ start_total = -1 /\ final_total = -1 /\ current_total = -1
    /\ force_add \in BOOLEAN
    /\ from_buckets = FALSE
    /\ cart_items = {}
    /\ added_count = 0 /\ skipped_count = 0 /\ failed_products = << >>
    /\ result = NoResult
    /\ log = << >> /\ cart_before = {} /\ passes = 0 /\ llm_checks = 0
    /\ prev_pass = [cart |-> {}, skipped |-> {}]

\* the caller calls add_products once more, on the dictionaries as the last
\* pass left them
CallAgain ==
    /\ pc = "returned"
    /\ passes < MaxPasses
    /\ \E force \in BOOLEAN : CallAddProducts(products, force, FALSE, "returned")
    /\ UNCHANGED <<matcherVars, remoteVars, buckets, cart_check, attempt,
                   start_total, final_total, current_total, passes, llm_checks>>

\* before the caller calls add_products once more, the user takes out of the
\* cart, once, a product for which the last pass skipped an item
UserRemoves ==
    /\ pc = "returned"
    /\ passes < MaxPasses
    /\ prev_pass.cart = {}
    /\ \E t \in remote_titles :
        /\ \E k \in DOMAIN log :
               log[k].outcome = "skipped" /\ IsProductInCart(log[k].title, {t})
        /\ remote_titles' = remote_titles \ {t}
        /\ remote_total' = IF remote_titles' = {} THEN 0
                           ELSE remote_total - UnitPrice
        /\ prev_pass' =
               [cart |-> prev_pass.cart \cup {t},
                skipped |-> prev_pass.skipped \cup
                    {log[k].title :
                        k \in {j \in DOMAIN log :
                                  /\ log[j].outcome = "skipped"
                                  /\ IsProductInCart(log[j].title, {t})}}]
    /\ \E force \in BOOLEAN : BindArguments(products, force, FALSE, "returned")
    /\ ResetLocals
    /\ UNCHANGED <<matcherVars, buckets, cart_check, attempt, start_total,
                   final_total, current_total, passes, llm_checks>>

PassNext == AddProducts \/ CallAgain

PassSpec == PassInit /\ [][PassNext]_vars

\* add passes over a cart that holds products, with the user at the cart
RetryInit == PassInit /\ remote_titles # {}

RetryNext == AddProducts \/ CallAgain \/ UserRemoves

RetrySpec == RetryInit /\ [][RetryNext]_vars

-----------------------------------------------------------------------------
(* Resolution over a drawn catalog and cart: one Matcher call, one call of   *)
(* _is_product_in_cart or one reading of the cart                            *)

ResolutionInit ==
    /\ product_title \in SearchTitles
    /\ available_products \in SeqsUpTo(BonusPool, MaxEerder)
    /\ eerder_gekocht \in SeqsUpTo(EerderPool, MaxEerder)
    /\ matched = NoProduct
    /\ called = "none"
    /\ in_cart = FALSE
    /\ LoaderIdle
    /\ \E c \in PassCarts : remote_titles = c.titles /\ remote_total = c.total
    /\ cart_items \in {{}, remote_titles}
    /\ pc = "idle" /\ buckets = << >>
    /\ cart_check = [satisfied |-> FALSE, products_to_add |-> << >>]
    /\ attempt = 0 /\ start_total = -1 /\ final_total = -1 /\ current_total = -1
    /\ ret = "none" /\ products = << >> /\ force_add = FALSE /\ from_buckets = FALSE
    /\ added_count = 0 /\ skipped_count = 0 /\ failed_products = << >>
    /\ result = NoResult
    /\ log = << >> /\ cart_before = {} /\ passes = 0 /\ llm_checks = 0
    /\ prev_pass = [cart |-> {}, skipped |-> {}]

\* cart_automation.py:1076-1115: read the total, and the titles when it is
\* above zero
RefreshCart ==
    /\ called = "none"
    /\ called' = "refresh"
    /\ \E cart_total \in ReadTotals, titles \in ReadTitles, has_price \in BOOLEAN :
        /\ start_total' = cart_total
        /\ cart_items' = SnapshotTitles(cart_total, titles, has_price)
    /\ UNCHANGED <<product_title, available_products, eerder_gekocht, matched,
                   in_cart, loaderVars, remoteVars>>
    /\ UNCHANGED <<pc, buckets, cart_check, attempt, final_total, current_total>>
    /\ UNCHANGED <<ret, products, force_add, from_buckets, added_count,
                   skipped_count, failed_products, result, histVars>>

ResolutionNext ==
    \/ CallFindInAllSources
    \/ CallFindInEerderGekocht
    \/ CallIsProductInCart
    \/ RefreshCart

ResolutionSpec == ResolutionInit /\ [][ResolutionNext]_vars

\* C29 (resolution has no side effect): a Matcher call, a call of
\* _is_product_in_cart and a reading of the cart leave the remote cart, the
\* caller's list of products and the eerder-gekocht products, entries and
\* order, as they are.
C29_ResolutionFrame ==
    [][called' # called =>
         /\ remote_titles' = remote_titles
         /\ remote_total' = remote_total
         /\ available_products' = available_products
         /\ eerder_gekocht' = eerder_gekocht]_vars

\* the Matcher has returned an entry of a list of two, over a cart that
\* holds products
C29_Witness ==
    /\ called = "all_sources"
    /\ matched # NoProduct
    /\ Len(available_products \o eerder_gekocht) = 2
    /\ matched \in {(available_products \o eerder_gekocht)[i] : i \in 1..2}
    /\ remote_titles # {}
    /\ remote_total > 0

-----------------------------------------------------------------------------
(* Properties of the add pass, checked under PassSpec *)

\* add_products has returned and its caller has not gone on yet
Returned == result # NoResult

\* the for loop ran to its end (no return at line 1129)
Completed == result.message.text = "added_skipped"

\* the last pass worked with the mark of line 1104 in place of the titles
UnknownTitles == cart_items = {CartNotEmptyMark}

\* the remote operation op was performed for the item recorded as r
HasOp(r, op) == \E i \in DOMAIN r.ops : r.ops[i] = op

\* the titles of the list as the pass received them
PassTitles ==
    IF log # << >> THEN [k \in DOMAIN log |-> log[k].title]
    ELSE [k \in DOMAIN products |-> products[k].title]

\* the cart held every title of the list when the pass began
CartHadAll ==
    \A k \in DOMAIN PassTitles : NormalizeTitle(PassTitles[k]) \in cart_before

\* promotion_quantity of the catalog entry the item recorded as r is matched
\* to: by the Matcher inside the pass, or before the pass
EntryPromotionQuantity(r) ==
    IF r.matcher = "found" THEN r.matched.promotion_quantity
    ELSE r.product.promotion_quantity

\* C1 (idempotence): a second pass over the same list, against a cart that
\* already held every title of it, performs no remote operation and reports
\* added_count = 0 and skipped_count = the number of items of the list.
C1_Idempotence ==
    (Returned /\ passes >= 2 /\ products # << >> /\ CartHadAll) =>
        /\ \A k \in DOMAIN log : log[k].ops = << >>
        /\ result.added_count = 0
        /\ result.message.text = "added_skipped"
        /\ result.message.skipped = Len(products)

\* C3 (partial failure isolation): when the pass has run, every item of the
\* list has its outcome recorded; an item that met a transport fault is
\* recorded as failed; and every item not skipped as already in the cart was
\* attempted, whatever happened to the items before it.
C3_PartialFailureIsolation ==
    (Returned /\ Completed) =>
        /\ Len(log) = Len(products)
        /\ \A k \in DOMAIN log :
            /\ log[k].outcome \in {"skipped", "added", "failed"}
            /\ log[k].outcome # "skipped" => log[k].ops # << >>
            /\ log[k].fault =>
                /\ log[k].outcome = "failed"
                /\ \E f \in DOMAIN failed_products :
                       failed_products[f].title = log[k].title
        /\ result.failed_count =
               Cardinality({k \in DOMAIN log : log[k].outcome = "failed"})
        /\ result.failed_products = failed_products

\* a pass over three items in which the second met a transport fault and
\* the first and the third were attempted, the third with success
C3_Witness ==
    /\ Returned /\ Completed
    /\ Len(log) = 3
    /\ log[1].ops # << >>
    /\ log[2].fault /\ log[2].outcome = "failed"
    /\ log[3].outcome = "added"

\* C4 (explicit quantity wins): an item with an explicit quantity q, matched
\* to an entry whose promotion_quantity is p > 1, is handed to the add with
\* quantity q.
C4_ExplicitQuantityWins ==
    Returned =>
        \A k \in DOMAIN log :
            (/\ HasOp(log[k], "add")
             /\ log[k].product.asked # 0
             /\ EntryPromotionQuantity(log[k]) > 1)
            => log[k].quantity = log[k].product.asked

\* C5 (quantity default): an item without an explicit quantity is handed to
\* the add with the matched entry's promotion_quantity when that is > 1 and
\* with 1 otherwise, also when the Matcher resolves the entry inside the pass.
C5_QuantityDefault ==
    Returned =>
        \A k \in DOMAIN log :
            (HasOp(log[k], "add") /\ log[k].product.asked = 0)
            => log[k].quantity =
                   (IF EntryPromotionQuantity(log[k]) > 1
                    THEN EntryPromotionQuantity(log[k])
                    ELSE 1)

\* C11 (partial apply): an item of which the add put n units into the cart,
\* 0 < n < quantity, is not booked as added but listed among the failed
\* products, and the items after it are still gone through.
C11_PartialApply ==
    (Returned /\ Completed) =>
        /\ Len(log) = Len(products)
        /\ \A k \in DOMAIN log :
            (0 < log[k].units /\ log[k].units < log[k].quantity) =>
                /\ log[k].outcome = "partial"
                /\ \E f \in DOMAIN failed_products :
                       failed_products[f].title = log[k].title

\* C12 (no silent drop): whenever the pass has returned, each item of the list
\* is booked exactly once, as added, skipped or failed, a failed item is
\* listed with its reason, and the added, skipped and failed items the result
\* reports are together as many as the list has.
C12_NoSilentDrop ==
    Returned =>
        /\ Len(log) = Len(products)
        /\ \A k \in DOMAIN log :
            /\ log[k].outcome \in {"added", "skipped", "failed", "partial"}
            /\ log[k].outcome \in {"failed", "partial"} =>
                   Cardinality({f \in DOMAIN result.failed_products :
                       result.failed_products[f].title = log[k].title}) >= 1
        /\ result.message.text = "added_skipped"
        /\ result.added_count + result.message.skipped + result.failed_count
               = Len(products)

\* C15 (force_add contract): without force_add a pass that detects a cart
\* that is not empty performs no remote operation, leaves the cart as it was
\* and returns success with added_count = 0 and no failed products; with
\* force_add the pass goes through its list whatever the cart holds, skips the
\* items it finds in the cart and attempts every other one.
C15_ForceAddContract ==
    Returned =>
        /\ (~force_add /\ cart_items # {}) =>
               /\ log = << >>
               /\ remote_titles = cart_before
               /\ result.success
               /\ result.added_count = 0
               /\ result.failed_count = 0 /\ result.failed_products = << >>
        /\ force_add =>
               /\ Completed
               /\ Len(log) = Len(products)
               /\ \A k \in DOMAIN log :
                      IF IsProductInCart(log[k].title, cart_items)
                      THEN log[k].outcome = "skipped" /\ log[k].ops = << >>
                      ELSE log[k].outcome # "skipped" /\ log[k].ops # << >>

\* a forced pass over a cart that is not empty has skipped one item and added
\* another
C15_Witness ==
    /\ Returned /\ force_add
    /\ cart_items # {} /\ ~UnknownTitles
    /\ \E k \in DOMAIN log : log[k].outcome = "skipped"
    /\ \E k \in DOMAIN log : log[k].outcome = "added"

\* C10 as stated (no match): an item for which the Matcher returns none is
\* recorded as failed and no remote operation (search, navigation, add) is
\* performed for it.
C10_NoMatchAsStated ==
    Returned =>
        \A k \in DOMAIN log :
            log[k].matcher = "none" =>
                /\ log[k].outcome = "failed"
                /\ log[k].ops = << >>

\* C10 (no match, amended): an item for which the Matcher returns none is
\* looked up by text search.  When the search fails the item is recorded as
\* failed with the reason "not found in JSON, search failed" and neither a
\* navigation nor an add is performed; when it succeeds the add is attempted
\* on the page found.  Either way the loop goes on with the next item.
C10_NoMatch ==
    (Returned /\ Completed) =>
        /\ Len(log) = Len(products)
        /\ \A k \in DOMAIN log :
            log[k].matcher = "none" =>
                /\ ~HasOp(log[k], "navigate")
                /\ IF log[k].search = "ok"
                   THEN /\ log[k].ops = <<"search", "add">>
                        /\ log[k].outcome \in {"added", "failed"}
                   ELSE /\ log[k].ops = <<"search">>
                        /\ log[k].outcome = "failed"
                        /\ log[k].reason = "not found in JSON, search failed"
                        /\ \E f \in DOMAIN failed_products :
                               /\ failed_products[f].title = log[k].title
                               /\ failed_products[f].reason = log[k].reason

\* an item without a match whose search failed, followed by another item
C10_Witness ==
    /\ Returned /\ Completed
    /\ \E k \in DOMAIN log :
        /\ log[k].matcher = "none"
        /\ log[k].search = "not_found"
        /\ log[k].outcome = "failed"
        /\ k < Len(log)
        /\ log[k + 1].ops # << >>

\* the identifier the item recorded as r is applied with: its own, or the
\* one of the entry the Matcher answered at line 1161
ResolvedUrl(r) ==
    IF r.matcher = "not_called" THEN r.product.product_url
    ELSE IF r.matcher = "found" THEN r.matched.product_url
    ELSE ""

\* the item recorded as r is listed in failed_products
ListedAsFailed(r) ==
    \E f \in DOMAIN failed_products : failed_products[f].title = r.title

C21_NoSkipCache ==
    (Returned /\ Completed) =>
        /\ cart_items \subseteq cart_before \/ cart_items = {CartNotEmptyMark}
        /\ \A k \in DOMAIN log :
               log[k].outcome = "skipped" <=>
                   IsProductInCart(log[k].title, cart_items)
        /\ \A k \in DOMAIN log :
               (/\ log[k].title \in prev_pass.skipped
                /\ ~IsProductInCart(log[k].title, cart_before)) =>
                   /\ log[k].outcome # "skipped"
                   /\ log[k].ops # << >>

\* an item skipped by the first pass was added by the second one, its title
\* having been taken out of the cart in between
C21_Witness ==
    /\ Returned /\ Completed
    /\ passes = 2
    /\ \E k \in DOMAIN log :
        /\ log[k].title \in prev_pass.skipped
        /\ IsProductInCart(log[k].title, prev_pass.cart)
        /\ ~IsProductInCart(log[k].title, cart_before)
        /\ log[k].outcome = "added"

\* the units the pass has put into the remote cart for the first n items
RECURSIVE UnitsPut(_)
UnitsPut(n) == IF n = 0 THEN 0 ELSE UnitsPut(n - 1) + log[n].units

\* C24 (units counted): after a pass, added_count is not greater than the
\* number of units the adds of the pass really put into the cart; an add that
\* clicked once for a quantity above 1 is not counted as that quantity.
C24_UnitsCounted ==
    (Returned /\ Completed) =>
        /\ result.added_count <= UnitsPut(Len(log))
        /\ \A k \in DOMAIN log : log[k].success_count <= log[k].units

\* C25 (no duplicate addition within one pass): an item whose title is, or
\* partly matches, the title of a product an earlier item of the same pass
\* has put into the cart is skipped as already present.
C25_NoDuplicateInPass ==
    (Returned /\ Completed) =>
        \A j, k \in DOMAIN log :
            (/\ j < k
             /\ log[j].outcome = "added"
             /\ TitleInCart(log[k].title, {NormalizeTitle(log[j].product.title)}))
            => log[k].outcome = "skipped"

-----------------------------------------------------------------------------
(* The workflow: main (main.py:161-287)                                      *)

\* min_total_amount and max_attempts of main
min_total_amount == 50
max_attempts == 3

\* what the recommender may answer in a run of main
LlmLists == Prefixes(MaxAnswer)

\* the carts a run may start from
InitialCarts == { [titles |-> {}, total |-> 0],
                  [titles |-> {NormalizeTitle(T_kaas48)}, total |-> 20],
                  [titles |-> {NormalizeTitle(T_kalf)}, total |-> 10] }

\* check_cart_with_llm(cart_products, ...): with an empty cart_products the
\* fixed answer of lines 355-362, otherwise what the recommender writes
CartChecks ==
    {[satisfied |-> FALSE, products_to_add |-> << >>]}
    \cup (IF remote_titles = {} THEN {}
          ELSE {[satisfied |-> sat, products_to_add |-> ProductsToAdd(l, all_products)] :
                    sat \in BOOLEAN, l \in LlmLists})

Init ==
    /\ MatcherIdle
    /\ \E c \in InitialCarts : remote_titles = c.titles /\ remote_total = c.total
    /\ pc = "start"
    /\ buckets \in {GenerateBuckets(l, all_products) : l \in LlmLists}
    /\ cart_check = [satisfied |-> FALSE, products_to_add |-> << >>]
    /\ attempt = 0 /\ start_total = -1 /\ final_total = -1 /\ current_total = -1
    /\ ret = "none" /\ products = << >> /\ force_add = FALSE /\ from_buckets = FALSE
    /\ cart_items = {}
    /\ added_count = 0 /\ skipped_count = 0 /\ failed_products = << >>
    /\ result = NoResult
    /\ log = << >> /\ cart_before = {} /\ passes = 0 /\ llm_checks = 0
    /\ prev_pass = [cart |-> {}, skipped |-> {}]

\* main goes on after a call of add_products: the frame of the call is gone
\* and the returned CartResult is not read again (add_result after line 243,
\* result never)
CallOver ==
    /\ ret' = "none"
    /\ products' = << >> /\ force_add' = FALSE /\ from_buckets' = FALSE
    /\ result' = NoResult
    /\ NoLocals

\* the mutant of EntryBranch: the recommender is asked whatever the total
EntryBranchAlwaysCheck(cart_total) == "llm_check"

\* main.py:166, 182: an empty cart goes straight to the buckets
EntryBranch(cart_total) == IF cart_total = 0 THEN "empty_add" ELSE "llm_check"

\* main.py:164-166, 182: read the total and branch
CheckCart ==
    /\ pc = "start"
    /\ \E cart_total \in ReadTotals :
        /\ start_total' = cart_total
        /\ pc' = EntryBranch(cart_total)
    /\ UNCHANGED <<matcherVars, remoteVars, buckets, cart_check, attempt,
                   final_total, current_total, passVars, histVars>>

\* main.py:171: the cart is empty, add the buckets
EmptyCartAdd ==
    /\ pc = "empty_add"
    /\ CallAddProducts(buckets, FALSE, TRUE, "empty_final")
    /\ UNCHANGED <<matcherVars, remoteVars, buckets, cart_check, attempt,
                   start_total, final_total, current_total, passes, llm_checks>>

\* main.py:175-181: read the final total
EmptyCartFinal ==
    /\ pc = "empty_final"
    /\ \E total \in ReadTotals : final_total' = total
    /\ UNCHANGED current_total
    /\ pc' = "done"
    /\ CallOver
    /\ UNCHANGED <<matcherVars, remoteVars, buckets, cart_check, attempt,
                   start_total, passes, llm_checks>>

\* main.py:187-229: scrape the cart, ask the recommender once
FirstCartCheck ==
    /\ pc = "llm_check"
    /\ \E answer \in CartChecks :
        /\ cart_check' = answer
        /\ pc' = IF answer.satisfied THEN "done" ELSE "loop"
    /\ attempt' = 0
    /\ llm_checks' = llm_checks + 1
    /\ UNCHANGED <<matcherVars, remoteVars, buckets, start_total, final_total,
                   current_total,
                   passVars, log, cart_before, prev_pass, passes>>

\* the mutant of WhileCondition: one attempt more
WhileConditionInclusive(a) == a <= max_attempts

\* main.py:231: while attempt < max_attempts
WhileCondition(a) == a < max_attempts

\* the mutant of AttemptsRemain: the recommender is never asked again
AttemptsRemainNever(a) == FALSE

\* main.py:256: if attempt < max_attempts
AttemptsRemain(a) == a < max_attempts

\* main.py:231-241: one more attempt, with the products the recommender named
LoopAddProducts ==
    /\ pc = "loop"
    /\ WhileCondition(attempt)
    /\ cart_check.products_to_add # << >>
    /\ attempt' = attempt + 1
    /\ CallAddProducts(cart_check.products_to_add, TRUE, FALSE, "after_add")
    /\ UNCHANGED <<matcherVars, remoteVars, buckets, cart_check, start_total,
                   final_total, current_total, passes, llm_checks>>

\* main.py:231-233, 272-276: one more attempt, with the buckets
LoopAddFromBuckets ==
    /\ pc = "loop"
    /\ WhileCondition(attempt)
    /\ cart_check.products_to_add = << >>
    /\ attempt' = attempt + 1
    /\ CallAddProducts(buckets, FALSE, TRUE, "after_buckets")
    /\ UNCHANGED <<matcherVars, remoteVars, buckets, cart_check, start_total,
                   final_total, current_total, passes, llm_checks>>

\* main.py:231: the attempts are used up
LoopExit ==
    /\ pc = "loop"
    /\ ~WhileCondition(attempt)
    /\ pc' = "final"
    /\ UNCHANGED <<matcherVars, remoteVars, buckets, cart_check, attempt,
                   start_total, final_total, current_total, passVars, histVars>>

\* main.py:246-251: the total read after add_products meets the minimum
AfterAddBreak ==
    /\ pc = "after_add"
    /\ current_total' \in ReadTotals
    /\ current_total' >= min_total_amount
    /\ pc' = "final"
    /\ CallOver
    /\ UNCHANGED <<matcherVars, remoteVars, buckets, cart_check, attempt,
                   start_total, final_total, passes, llm_checks>>

\* main.py:246-266: the total is under the minimum and attempts are left: ask
\* the recommender again
AfterAddRecheck ==
    /\ pc = "after_add"
    /\ current_total' \in ReadTotals
    /\ current_total' < min_total_amount
    /\ AttemptsRemain(attempt)
    /\ llm_checks' = llm_checks + 1
    /\ \E answer \in CartChecks :
        /\ cart_check' = answer
        /\ pc' = IF answer.satisfied THEN "fallback" ELSE "loop"
    /\ CallOver
    /\ UNCHANGED <<matcherVars, remoteVars, buckets, attempt, start_total,
                   final_total, passes>>

\* main.py:266-268: the recommender is satisfied but the total is not there:
\* add the buckets
FallbackAdd ==
    /\ pc = "fallback"
    /\ CallAddProducts(buckets, FALSE, TRUE, "after_fallback")
    /\ UNCHANGED <<matcherVars, remoteVars, buckets, cart_check, attempt,
                   start_total, final_total, current_total, passes, llm_checks>>

\* main.py:246-256: under the minimum after the last attempt
AfterAddLast ==
    /\ pc = "after_add"
    /\ current_total' \in ReadTotals
    /\ current_total' < min_total_amount
    /\ ~AttemptsRemain(attempt)
    /\ pc' = "loop"
    /\ CallOver
    /\ UNCHANGED <<matcherVars, remoteVars, buckets, cart_check, attempt,
                   start_total, final_total, passes, llm_checks>>

\* the total read after add_from_buckets decides between break and loop
ReadAndLoop ==
    /\ current_total' \in ReadTotals
    /\ pc' = IF current_total' >= min_total_amount THEN "final" ELSE "loop"
    /\ CallOver
    /\ UNCHANGED <<matcherVars, remoteVars, buckets, cart_check, attempt,
                   start_total, final_total, passes, llm_checks>>

\* main.py:269-271
AfterFallback == pc = "after_fallback" /\ ReadAndLoop

\* main.py:277-279
AfterBuckets == pc = "after_buckets" /\ ReadAndLoop

\* main.py:282-287
FinalCheck ==
    /\ pc = "final"
    /\ \E total \in ReadTotals : final_total' = total
    /\ UNCHANGED current_total
    /\ pc' = "done"
    /\ UNCHANGED <<matcherVars, remoteVars, buckets, cart_check, attempt,
                   start_total, passVars, histVars>>

Next ==
    \/ AddProducts
    \/ CheckCart
    \/ EmptyCartAdd
    \/ EmptyCartFinal
    \/ FirstCartCheck
    \/ LoopAddProducts
    \/ LoopAddFromBuckets
    \/ LoopExit
    \/ AfterAddBreak
    \/ AfterAddRecheck
    \/ FallbackAdd
    \/ AfterAddLast
    \/ AfterFallback
    \/ AfterBuckets
    \/ FinalCheck

Spec == Init /\ [][Next]_vars

-----------------------------------------------------------------------------
(* Properties of the workflow, checked under Spec *)

\* main has ended on the path through the while loop
DoneAfterLoop == pc = "done" /\ start_total > 0 /\ final_total >= 0

\* the remote total has stayed under the minimum (it never decreases)
NeverReached == remote_total < min_total_amount

\* C2 as stated (convergence termination): with a cart that never reaches the
\* minimum, the loop ends after exactly max_attempts add passes and the final
\* total reported is under the minimum.
C2_ConvergenceAsStated ==
    (DoneAfterLoop /\ NeverReached) =>
        /\ passes = max_attempts
        /\ final_total < min_total_amount

\* C2 (convergence termination, amended): attempts never exceed max_attempts;
\* with a cart that never reaches the minimum, the loop ends after exactly
\* max_attempts attempts, which make at least max_attempts and at most
\* 2 * max_attempts - 1 add passes (an attempt whose re-check answers
\* "satisfied" adds the buckets as well), and the final total reported is
\* under the minimum.
C2_Convergence ==
    /\ attempt <= max_attempts
    /\ passes <= 2 * max_attempts - 1
    /\ (DoneAfterLoop /\ NeverReached) =>
           /\ attempt = max_attempts
           /\ passes >= max_attempts
           /\ final_total < min_total_amount

\* the loop ended under the minimum after three attempts and five passes
C2_Witness ==
    /\ DoneAfterLoop /\ NeverReached
    /\ attempt = max_attempts
    /\ passes = 2 * max_attempts - 1

\* what holds on the path of an empty cart
EmptyCartPath ==
    /\ llm_checks = 0
    /\ attempt = 0
    /\ pc \in {"empty_add", "add_products", "empty_final", "done"}
    /\ pc = "empty_add" => passes = 0
    /\ pc = "add_products" =>
           /\ passes = 0
           /\ ret = "empty_final"
           /\ from_buckets /\ ~force_add
           /\ products = buckets
    /\ pc \in {"empty_final", "done"} => passes = 1
    /\ (pc = "empty_final" /\ buckets = << >>) => result.added_count = 0
    /\ pc = "done" => final_total >= 0

\* the steps of the path of an empty cart, each one nearer to the end
EmptyCartStep ==
    \/ pc = "empty_add" /\ pc' = "add_products"
    \/ pc = "add_products" /\ pc' = "empty_final"
    \/ pc = "empty_final" /\ pc' = "done"

\* the pass that has been called can return: some reading of the cart makes
\* it return at once or lets the for loop end
PassCanReturn ==
    \E items \in Snapshots :
        \/ items # {} /\ ~force_add
        \/ PassOutcomes(products, items, 1, PassStart(products)) # {}

\* before its end the path of an empty cart is never stuck
EmptyCartCanStep ==
    /\ pc = "empty_add" => ENABLED EmptyCartAdd
    /\ pc = "add_products" => PassCanReturn
    /\ pc = "empty_final" => ENABLED EmptyCartFinal

\* C9 (empty-cart fast path): when the total read at the start is 0, the
\* recommender is never asked, the one add pass gets all the buckets, also
\* when there are none (nothing is added), and main reaches its end: until
\* then a step is always possible, and every step is a step towards the end.
C9_EmptyCartFastPath ==
    /\ [](start_total = 0 => (EmptyCartPath /\ EmptyCartCanStep))
    /\ [][start_total = 0 => EmptyCartStep]_vars

\* main has ended on the path of an empty cart, with no buckets to add
C9_Witness ==
    /\ pc = "done"
    /\ start_total = 0
    /\ buckets = << >>
    /\ passes = 1
    /\ llm_checks = 0

\* main leaves the while loop because the total it read meets the minimum
BreakStep ==
    /\ pc \in {"after_add", "after_fallback", "after_buckets"}
    /\ pc' = "final"

\* C14 as stated (unknown-titles mark): a pass that could not read the titles
\* of a cart with a nonzero total finds no title in the cart and is not kept
\* from adding: every item of its list is attempted.
C14_SentinelAsStated ==
    (Returned /\ UnknownTitles /\ products # << >>) =>
        /\ Completed
        /\ Len(log) = Len(products)
        /\ \A k \in DOMAIN log :
               log[k].outcome # "skipped" /\ log[k].ops # << >>

\* C14 amended: a pass that could not read the titles of a cart with a nonzero
\* total finds no title in the cart; with force_add it attempts every item of
\* its list, without force_add it returns at once and attempts none; and main
\* leaves the loop for having reached the minimum only when the total of the
\* remote cart is at least the minimum.
C14_Sentinel ==
    /\ []((Returned /\ UnknownTitles) =>
            /\ remote_total > 0
            /\ CartNotEmptyMark \notin remote_titles
            /\ \A k \in DOMAIN products :
                   ~IsProductInCart(products[k].title, cart_items)
            /\ force_add =>
                   /\ Completed
                   /\ Len(log) = Len(products)
                   /\ \A k \in DOMAIN log :
                          log[k].outcome # "skipped" /\ log[k].ops # << >>
            /\ ~force_add =>
                   /\ result = CartNotEmptyResult
                   /\ log = << >>
                   /\ remote_titles = cart_before)
    /\ [][(UnknownTitles /\ BreakStep) => remote_total >= min_total_amount]_vars

\* a forced pass over a cart of unknown titles has added an item
C14_Witness ==
    /\ Returned /\ UnknownTitles
    /\ force_add
    /\ \E k \in DOMAIN log : log[k].outcome = "added"

\* main stands behind a pass of the while loop, about to read the total
AfterLoopPass == pc \in {"after_add", "after_fallback", "after_buckets"}

\* C19 as stated (re-evaluation after a pass): behind every add pass, the one
\* from an empty cart included, the total is read again; a total of at least
\* the minimum ends the adding, and a lower total with attempts left makes
\* main ask the recommender again and go on to another pass.
C19_ReEvaluateAsStated ==
    [][(AfterLoopPass \/ pc = "empty_final") =>
         LET total == IF pc = "empty_final" THEN final_total' ELSE current_total'
         IN  /\ total \in ReadTotals
             /\ total >= min_total_amount => pc' \in {"final", "done"}
             /\ (total < min_total_amount /\ attempt < max_attempts) =>
                    /\ llm_checks' = llm_checks + 1
                    /\ pc' \in {"loop", "fallback"}]_vars

\* the step behind a pass of the while loop: the total is read and decides
ReadInLoopStep ==
    AfterLoopPass =>
        /\ current_total' \in ReadTotals
        /\ current_total' >= min_total_amount => pc' = "final"
        /\ (current_total' < min_total_amount /\ attempt < max_attempts) =>
               IF pc = "after_add"
               THEN /\ llm_checks' = llm_checks + 1
                    /\ pc' = IF cart_check'.satisfied THEN "fallback" ELSE "loop"
               ELSE /\ llm_checks' = llm_checks
                    /\ cart_check' = cart_check
                    /\ pc' = "loop"
        /\ (current_total' < min_total_amount /\ attempt >= max_attempts) =>
               /\ llm_checks' = llm_checks
               /\ pc' = "loop"

\* the step that starts the next pass, or leaves the loop without attempts
NextPassStep ==
    /\ pc = "loop" =>
           IF attempt < max_attempts
           THEN /\ pc' = "add_products"
                /\ attempt' = attempt + 1
                /\ products' = IF cart_check.products_to_add # << >>
                               THEN cart_check.products_to_add ELSE buckets
           ELSE pc' = "final"
    /\ pc = "fallback" =>
           /\ pc' = "add_products"
           /\ products' = buckets

\* the steps behind the pass of an empty cart and behind the loop
EndStep ==
    /\ pc = "empty_final" =>
           /\ final_total' \in ReadTotals
           /\ pc' = "done"
           /\ passes' = passes
    /\ pc \in {"final", "done"} =>
           /\ pc' = "done"
           /\ passes' = passes

\* C19 amended: behind every add pass the total is read again.  In the while
\* loop a total of at least the minimum ends the adding; a lower total behind
\* a pass over the recommender's list, with attempts left, makes main ask the
\* recommender again and go on to another pass (over the buckets at once when
\* the answer is "satisfied", otherwise over the products named, or over the
\* buckets when none is named); a lower total behind a pass over the buckets
\* makes main go on with the answer it has, and to another pass while
\* attempts are left.  On the path of an empty cart the one pass is followed
\* by the end of main whatever the total read.  No pass follows the end of
\* the loop.
C19_ReEvaluate ==
    /\ [][ReadInLoopStep]_vars
    /\ [][NextPassStep]_vars
    /\ [][EndStep]_vars
    /\ [](pc = "loop" =>
            ENABLED (LoopAddProducts \/ LoopAddFromBuckets \/ LoopExit))
    /\ [](pc = "fallback" => ENABLED FallbackAdd)

\* the total read behind the first pass was under the minimum, the
\* recommender was asked again and a second pass over its list has returned
C19_Witness ==
    /\ pc = "after_add"
    /\ attempt = 2 /\ passes = 2 /\ llm_checks = 2
    /\ 0 < current_total /\ current_total < min_total_amount
    /\ Returned /\ Completed

\* C26 (bucket fallback pass): in the while loop, the pass over the buckets
\* that is made when the recommender names no product, or is satisfied under
\* the minimum, attempts every bucket item that is not in the cart already.
C26_BucketFallback ==
    pc \in {"after_fallback", "after_buckets"} =>
        \A k \in DOMAIN products :
            ~IsProductInCart(products[k].title, cart_before) =>
                /\ k \in DOMAIN log
                /\ log[k].ops # << >>

\* C27 (empty cart only when empty): the path of an empty cart is taken only
\* when the total of the remote cart was zero when it was read; a total that
\* could not be read is not taken for a total of 0.
C27_EmptyOnlyWhenEmpty ==
    [][(pc = "start" /\ pc' = "empty_add") => remote_total = 0]_vars

=============================================================================
